---------------------------- MODULE Spec2Model ----------------------------
(***************************************************************************)
(* Arm inverse kinematics of three-avatar: AvatarIK (src/src/avatar-ik.ts) *)
(* drives the two arm chains of an avatar from the XR controllers.         *)
(*                                                                         *)
(* Numbers.  Time is counted in units of 1/120 s.  Positions are integer   *)
(* 3-vectors; orientations are the 24 rotations of the cube (signed        *)
(* permutations of the axes), the finite subgroup of the unit quaternions  *)
(* in which products and inverses are exact.  The position of an IK target *)
(* is a rational vector (numerator vector n over denominator d), because   *)
(* the reach clamp interpolates with a factor alpha < 1.  Bone lengths and *)
(* controller placements are chosen so that every distance the code takes  *)
(* the square root of is an integer.                                       *)
(***************************************************************************)
EXTENDS Integers, Sequences, FiniteSets, TLC

(***************************************************************************)
(* Bounds of the model.                                                    *)
(***************************************************************************)
MaxDelta == 2
MaxInstances == 2
MaxCalls == 2
MaxPlayed == 4
MaxEvents == 4

(***************************************************************************)
(* Arithmetic helpers.                                                     *)
(***************************************************************************)
Abs(x) == IF x < 0 THEN -x ELSE x
Sgn(x) == IF x < 0 THEN -1 ELSE IF x > 0 THEN 1 ELSE 0

RECURSIVE GcdNat(_, _)
GcdNat(a, b) == IF b = 0 THEN a ELSE GcdNat(b, a % b)
Gcd(a, b) == GcdNat(Abs(a), Abs(b))

\* Math.sqrt on a perfect square
Sqrt(n) == CHOOSE r \in 0..71 : r * r = n

(***************************************************************************)
(* THREE.Vector3 with integer components.                                  *)
(***************************************************************************)
ZeroV == <<0, 0, 0>>
VAdd(u, v) == <<u[1] + v[1], u[2] + v[2], u[3] + v[3]>>
VSub(u, v) == <<u[1] - v[1], u[2] - v[2], u[3] - v[3]>>
VScale(k, v) == <<k * v[1], k * v[2], k * v[3]>>
\* Vector3.distanceToSquared
DistanceToSquared(u, v) ==
    LET d == VSub(u, v) IN d[1] * d[1] + d[2] * d[2] + d[3] * d[3]

(***************************************************************************)
(* Rational vectors n/d in lowest terms, d > 0.                            *)
(***************************************************************************)
RNorm(n, d) ==
    LET g == Gcd(Gcd(Gcd(n[1], n[2]), n[3]), d)
        s == IF d < 0 THEN -1 ELSE 1
    IN  [n |-> <<(s * n[1]) \div g, (s * n[2]) \div g, (s * n[3]) \div g>>,
         d |-> (s * d) \div g]
RVec(v) == [n |-> v, d |-> 1]

(***************************************************************************)
(* THREE.Quaternion restricted to the rotation group of the cube.  A       *)
(* rotation r is <<r1, r2, r3>>: it maps the axis e_i to sgn(r_i) e_|r_i|. *)
(***************************************************************************)
IdQ == <<1, 2, 3>>
RotX90 == <<1, 3, -2>>
RotY90 == <<-3, 2, 1>>
RotZ90 == <<2, -1, 3>>
\* Vector3.applyQuaternion
ApplyQuaternion(r, v) ==
    [k \in 1..3 |-> LET i == CHOOSE j \in 1..3 : Abs(r[j]) = k
                    IN  Sgn(r[i]) * v[i]]
\* Quaternion.multiplyQuaternions(a, b): the rotation "b, then a"
MultiplyQuaternions(a, b) == [i \in 1..3 |-> Sgn(b[i]) * a[Abs(b[i])]]
\* Quaternion.invert
Invert(r) ==
    [k \in 1..3 |-> LET i == CHOOSE j \in 1..3 : Abs(r[j]) = k
                    IN  Sgn(r[i]) * i]
RECURSIVE QPow(_, _)
QPow(r, k) == IF k = 0 THEN IdQ ELSE MultiplyQuaternions(r, QPow(r, k - 1))

(***************************************************************************)
(* THREE.MathUtils.degToRad: degrees * pi / 180, kept as the fraction of   *)
(* pi in lowest terms, [n |-> p, d |-> q] standing for p*pi/q radians.     *)
(***************************************************************************)
DegToRad(deg) ==
    LET g == Gcd(deg, 180) IN [n |-> deg \div g, d |-> 180 \div g]
\* quarter turns of an angle that is a multiple of pi/2
QuarterTurns(rad) == ((2 * rad.n) \div rad.d) % 4
\* Quaternion.setFromEuler(new Euler(x, y, z)), order XYZ
SetFromEuler(e) ==
    MultiplyQuaternions(QPow(RotX90, QuarterTurns(e[1])),
        MultiplyQuaternions(QPow(RotY90, QuarterTurns(e[2])),
                            QPow(RotZ90, QuarterTurns(e[3]))))


(***************************************************************************)
(* The avatar.  Avatar (src/src/defaults.ts) looks the three bones of each *)
(* arm up by name; a bone the model lacks is undefined.  The arm bones     *)
(* hang under the avatar object ("person"): upper arm, lower arm, hand.    *)
(***************************************************************************)
ArmSet == {"left", "right"}
Undefined == "undefined"
LeftArmBoneNames == <<"LeftArm", "LeftForeArm", "LeftHand">>
RightArmBoneNames == <<"RightArm", "RightForeArm", "RightHand">>
ArmBoneNames(a) == IF a = "left" THEN LeftArmBoneNames ELSE RightArmBoneNames
AllArmBones == {ArmBoneNames(a)[k] : a \in ArmSet, k \in 1..3}
\* which bones of an arm the avatar found: all, or all but one
BonePatterns == {<<TRUE, TRUE, TRUE>>, <<FALSE, TRUE, TRUE>>, <<TRUE, TRUE, FALSE>>}
IKTargetBones(a, pat) ==
    [k \in 1..3 |-> IF pat[k] THEN ArmBoneNames(a)[k] ELSE Undefined]

\* Bone.position of the arm bones (rest offsets, never changed by the code)
\* the bone Avatar.headBone, and a bone that is no sync target
HeadBone == "Head"
HipsBone == "Hips"
Mirror(a, v) == IF a = "left" THEN v ELSE <<-v[1], v[2], v[3]>>
UpperArmPosition(a) == Mirror(a, <<1, 0, 0>>)
LowerArmPosition(a) == Mirror(a, <<3, 0, 0>>)
HandPosition(a) == Mirror(a, <<4, 0, 0>>)


(***************************************************************************)
(* Configuration a caller passes to new AvatarIK(...).                     *)
(***************************************************************************)
\* getDefaultRotationLimitSet: per arm <<limit 1, limit 2>>, in degrees
RotationLimitSetVrmV1 ==
    [leftArm |-> <<[rotationMin |-> <<0, -120, -80>>, rotationMax |-> <<0, 5, 80>>],
                   [rotationMin |-> <<0, -150, 0>>, rotationMax |-> <<0, 0, 0>>]>>,
     rightArm |-> <<[rotationMin |-> <<0, -5, -80>>, rotationMax |-> <<0, 120, 80>>],
                    [rotationMin |-> <<0, 0, 0>>, rotationMax |-> <<0, 150, 0>>]>>]
RotationLimitSetRpm ==
    [leftArm |-> <<[rotationMin |-> <<-80, 0, -5>>, rotationMax |-> <<80, 0, 120>>],
                   [rotationMin |-> <<0, 0, 0>>, rotationMax |-> <<0, 0, 150>>]>>,
     rightArm |-> <<[rotationMin |-> <<-80, 0, -120>>, rotationMax |-> <<80, 0, 5>>],
                    [rotationMin |-> <<0, 0, -150>>, rotationMax |-> <<0, 0, 0>>]>>]
\* a caller's own set that leaves some limits out (RotationLimit's fields are
\* optional); <<>> stands for an absent Vector3Tupple
NoTupple == <<>>
RotationLimitSetOpen ==
    [leftArm |-> <<[rotationMin |-> <<-90, 0, 0>>, rotationMax |-> NoTupple],
                   [rotationMin |-> NoTupple, rotationMax |-> <<0, 0, 150>>]>>,
     rightArm |-> <<[rotationMin |-> NoTupple, rotationMax |-> NoTupple],
                    [rotationMin |-> <<0, 0, -150>>, rotationMax |-> <<0, 0, 0>>]>>]

\* WristRotationOffsetSet in degrees; the model keeps to the multiples of 90
\* degrees, the Euler angles whose quaternion is a rotation of the cube
OffsetsA == [left |-> <<-90, 90, 0>>, right |-> <<-90, -90, 0>>]
OffsetsB == [left |-> <<90, 0, 90>>, right |-> <<0, 0, 0>>]

\* options.intervalSec: absent, or a number of time units (0 and 3 below)
NoInterval == -1
\* 1 / 60 s
DEFAULT_INTERVAL_SEC == 2


(***************************************************************************)
(* State.                                                                  *)
(***************************************************************************)
VARIABLES
    armBones,       \* Avatar.ikTargetLeftArmBones / ikTargetRightArmBones
    person,         \* world transform of the avatar object
    quaternion,     \* Bone.quaternion of every arm bone
    skeleton,       \* person.skeleton: defined, bones, boneInverses
    targetBone,     \* the bones leftArmIK / rightArmIK: exists, parent, position
    gen,            \* number of AvatarIK instances constructed so far
    _intervalSec,   \* AvatarIK._intervalSec of the current instance
    _sec,           \* AvatarIK._sec
    _solver,        \* AvatarIK._solver: defined, iks
    _vrMappings,    \* AvatarIK._vrMappings
    _helper,        \* AvatarIK._helper: defined
    scene,          \* the debug helpers attached to the root of the scene
    _tmps,          \* the module's scratch objects: vec, vec1, quat, quat1, mat
    last,           \* what the last call did (history)
    animations,     \* Avatar.object3D.animations: the clips, in array order
    _ikEnabled,     \* Avatar._ikEnabled
    _activeAction,  \* Avatar._activeAction: defined, clip, enabled
    _mixer,         \* the actions scheduled in Avatar._mixer and their fades
    lastClip,       \* what the last call on the avatar did (history)
    avatarAnimationData,  \* loader.ts: the module variable, null or the data
    preloads,       \* the calls of preLoadAnimationData and where each is
    loads,          \* the calls of loadAvatarModel and where each is
    _isWalking,     \* AutoWalker._isWalking
    _walkCheckTimer,  \* AutoWalker._walkCheckTimer
    _lastPosition,  \* AutoWalker._lastPosition: defined, position
    _object3D,      \* AutoWalker._object3D: defined, visible, position
    _avatar,        \* AutoWalker._avatar: unset, or whether deref() gives it
    played,         \* the clips requested of the avatar, in order (history)
    sinceMoved,     \* tick time of visible ticks since a movement (history)
    lastWalk,       \* what the last call on the walker did (history)
    xr,             \* the WebXRManager: isPresenting, cameraReady
    getAvatar,      \* what getAvatar() returns: Undefined or the avatar
    head,           \* the head object (the camera): rotation
    headOffset,     \* its parent: rotation, position
    positions,      \* registerSyncAvatarHeadAndCamera: the saved positions
    rotation,       \* registerSyncAvatarHeadAndCamera: the saved rotation
    registered,     \* whether the listeners have been added
    handlers,       \* the runs of setupVR and setupNonVR, by triggering event
    callbacks       \* the callbacks invoked so far, in order (history)

ikVars == <<armBones, person, quaternion, skeleton, targetBone, gen,
            _intervalSec, _sec, _solver, _vrMappings, _helper, scene, _tmps,
            last>>
avatarVars == <<animations, _ikEnabled, _activeAction, _mixer, lastClip>>
loaderVars == <<avatarAnimationData, preloads, loads>>
walkerVars == <<_isWalking, _walkCheckTimer, _lastPosition, _object3D, _avatar,
                played, sinceMoved, lastWalk>>
syncVars == <<xr, getAvatar, head, headOffset, positions, rotation, registered,
              handlers, callbacks>>
extVars == <<walkerVars, syncVars>>
vars == <<ikVars, avatarVars, loaderVars, extVars>>

(***************************************************************************)
(* Scene graph: world transforms as Object3D.getWorldPosition and          *)
(* getWorldQuaternion compute them (all scales are 1).                     *)
(***************************************************************************)
Person == "person"
BoneArm(b) == IF b \in {"LeftArm", "LeftForeArm", "LeftHand"} THEN "left" ELSE "right"
Parent(b) ==
    CASE b = "LeftHand" -> "LeftForeArm"
      [] b = "LeftForeArm" -> "LeftArm"
      [] b = "RightHand" -> "RightForeArm"
      [] b = "RightForeArm" -> "RightArm"
      [] OTHER -> Person
BonePosition(b) ==
    CASE b \in {"LeftArm", "RightArm"} -> UpperArmPosition(BoneArm(b))
      [] b \in {"LeftForeArm", "RightForeArm"} -> LowerArmPosition(BoneArm(b))
      [] OTHER -> HandPosition(BoneArm(b))

RECURSIVE GetWorldQuaternion(_, _)
GetWorldQuaternion(q, b) ==
    IF b = Person THEN person.quaternion
    ELSE MultiplyQuaternions(GetWorldQuaternion(q, Parent(b)), q[b])

RECURSIVE GetWorldPosition(_, _)
GetWorldPosition(q, b) ==
    IF b = Person THEN person.position
    ELSE VAdd(GetWorldPosition(q, Parent(b)),
              ApplyQuaternion(GetWorldQuaternion(q, Parent(b)), BonePosition(b)))

\* v.applyMatrix4(obj.matrixWorld.invert()) for the rigid transform t
ApplyInverseMatrixWorld(t, a) ==
    LET w == RNorm(VSub(a.n, VScale(a.d, t.position)), a.d)
    IN  [n |-> ApplyQuaternion(Invert(t.quaternion), w.n), d |-> w.d]
\* the inverse: local to world
ApplyMatrixWorld(t, a) ==
    LET r == ApplyQuaternion(t.quaternion, a.n)
    IN  RNorm(VAdd(r, VScale(a.d, t.position)), a.d)
\* faulty variant: interpolated from the other end
LerpFromEnd(u, v, alpha) ==
    RNorm(VAdd(VScale(alpha.d, v), VScale(alpha.n, VSub(u, v))), alpha.d)
\* Vector3.lerp(v, alpha) on this = u, with alpha = alpha.n / alpha.d
Lerp(u, v, alpha) ==
    RNorm(VAdd(VScale(alpha.d, u), VScale(alpha.n, VSub(v, u))), alpha.d)

(***************************************************************************)
(* new AvatarIK(...): chain construction.                                  *)
(***************************************************************************)
\* faulty variant: the first bone is not looked at
IsNotIncludeUndefinedTail(bones) == \A k \in 2..3 : bones[k] # Undefined
IsNotIncludeUndefined(bones) == \A k \in 1..3 : bones[k] # Undefined

\* Array.findIndex with JavaScript's indices: 0-based, -1 when absent
FindIndex(seq, x) ==
    IF \E k \in 1..Len(seq) : seq[k] = x
    THEN (CHOOSE k \in 1..Len(seq) :
              seq[k] = x /\ \A j \in 1..(k - 1) : seq[j] # x) - 1
    ELSE -1

\* an inverse bind matrix is recorded by the bone whose matrixWorld it inverts
BoneInverse(bone) == [of |-> bone]
\* new THREE.Skeleton(bones): one inverse per bone
NewSkeleton(bones) ==
    [defined |-> TRUE, bones |-> bones,
     boneInverses |-> [k \in 1..Len(bones) |-> BoneInverse(bones[k])]]
NoSkeleton == [defined |-> FALSE, bones |-> <<>>, boneInverses |-> <<>>]

TargetNames == {"leftArmIK", "rightArmIK"}
TargetName(a) == IF a = "left" THEN "leftArmIK" ELSE "rightArmIK"
NoTargetBone == [exists |-> FALSE, parent |-> Undefined, position |-> RVec(ZeroV)]

\* faulty variant: the new bone is pushed without an inverse
FindOrAddTargetBoneNoInverse(sk, tbs, q, name, effectorBone) ==
    IF \E k \in 1..Len(sk.bones) : sk.bones[k] = name
    THEN [skeleton |-> sk, targetBone |-> tbs]
    ELSE [skeleton |-> [sk EXCEPT !.bones = Append(sk.bones, name)],
          targetBone |->
              [tbs EXCEPT ![name] =
                  [exists |-> TRUE, parent |-> Person,
                   position |-> ApplyInverseMatrixWorld(person,
                                    RVec(GetWorldPosition(q, effectorBone)))]]]

\* faulty variant: a target bone is made on every call
FindOrAddTargetBoneAlways(sk, tbs, q, name, effectorBone) ==
    LET bones == Append(sk.bones, name)
        inverses == Append(sk.boneInverses, BoneInverse(bones[Len(bones)]))
        initPos == RVec(GetWorldPosition(q, effectorBone))
    IN  [skeleton |-> [sk EXCEPT !.bones = bones, !.boneInverses = inverses],
         targetBone |->
             [tbs EXCEPT ![name] =
                 [exists |-> TRUE, parent |-> Person,
                  position |-> ApplyInverseMatrixWorld(person, initPos)]]]
\* faulty variant: the new bone is attached under the effector bone
FindOrAddTargetBoneUnderHand(sk, tbs, q, name, effectorBone) ==
    IF \E k \in 1..Len(sk.bones) : sk.bones[k] = name
    THEN [skeleton |-> sk, targetBone |-> tbs]
    ELSE LET bones == Append(sk.bones, name)
             inverses == Append(sk.boneInverses, BoneInverse(bones[Len(bones)]))
             initPos == RVec(GetWorldPosition(q, effectorBone))
         IN  [skeleton |-> [sk EXCEPT !.bones = bones, !.boneInverses = inverses],
              targetBone |->
                  [tbs EXCEPT ![name] =
                      [exists |-> TRUE, parent |-> effectorBone,
                       position |-> ApplyInverseMatrixWorld(person, initPos)]]]
\* returns the skeleton and the target bones after the call
FindOrAddTargetBone(sk, tbs, q, name, effectorBone) ==
    IF \E k \in 1..Len(sk.bones) : sk.bones[k] = name
    THEN [skeleton |-> sk, targetBone |-> tbs]
    ELSE LET bones == Append(sk.bones, name)
             inverses == Append(sk.boneInverses, BoneInverse(bones[Len(bones)]))
             initPos == RVec(GetWorldPosition(q, effectorBone))
         IN  [skeleton |-> [sk EXCEPT !.bones = bones, !.boneInverses = inverses],
              targetBone |->
                  [tbs EXCEPT ![name] =
                      [exists |-> TRUE, parent |-> Person,
                       position |-> ApplyInverseMatrixWorld(person, initPos)]]]

LimitToVec(ar) == IF ar = NoTupple THEN NoTupple ELSE [k \in 1..3 |-> DegToRad(ar[k])]

(***************************************************************************)
(* Tmps: the scratch objects shared by every call.  vec and vec1 hold a    *)
(* (rational) vector, quat and quat1 a quaternion, mat the inverse of the  *)
(* world matrix of the transform it names.  A method that is given a       *)
(* scratch object as its target overwrites it and returns it.              *)
(***************************************************************************)
NewTmps ==
    [defined |-> TRUE, vec |-> RVec(ZeroV), vec1 |-> RVec(ZeroV),
     quat |-> IdQ, quat1 |-> IdQ,
     mat |-> [position |-> ZeroV, quaternion |-> IdQ]]
NoTmps == [NewTmps EXCEPT !.defined = FALSE]
\* faulty variant: the object is returned as it was left
WriteVecSkipped(tmps, v) == tmps
WriteVec(tmps, v) == [tmps EXCEPT !.vec = v]
WriteVec1(tmps, v) == [tmps EXCEPT !.vec1 = v]
WriteQuat(tmps, r) == [tmps EXCEPT !.quat = r]
WriteQuat1(tmps, r) == [tmps EXCEPT !.quat1 = r]
\* _tmps.mat.copy(object.matrixWorld).invert()
WriteMat(tmps, transform) == [tmps EXCEPT !.mat = transform]
\* Vector3.applyMatrix4(_tmps.mat)
ApplyMatrix4(v, mat) == ApplyInverseMatrixWorld(mat, v)
\* vec.distanceToSquared(vec1)
VecDistance(tmps) == DistanceToSquared(tmps.vec.n, tmps.vec1.n)
\* vec1.lerp(vec, alpha), in place
LerpVec1(tmps, alpha) == WriteVec1(tmps, Lerp(tmps.vec1.n, tmps.vec.n, alpha))
\* vec1.applyMatrix4(mat) and vec.applyMatrix4(mat), in place
Vec1ToLocal(tmps) == WriteVec1(tmps, ApplyMatrix4(tmps.vec1, tmps.mat))
VecToLocal(tmps) == WriteVec(tmps, ApplyMatrix4(tmps.vec, tmps.mat))
\* quat.premultiply(quat1.invert()), both in place
Premultiplied(tmps) ==
    WriteQuat(WriteQuat1(tmps, Invert(tmps.quat1)),
              MultiplyQuaternions(Invert(tmps.quat1), tmps.quat))

\* the scratch objects after the constructor of VRMapping measured the arm
ConstructorTmps(q, wristBone, shoulderBone, tmps) ==
    WriteVec1(WriteVec(tmps, RVec(GetWorldPosition(q, shoulderBone))),
              RVec(GetWorldPosition(q, wristBone)))

\* new VRMapping(vrPerson, getVrHand, ikTarget, wristBone, shoulderBone, offset)
NewVRMapping(tbs, q, getVrHand, ikTarget, wristBone, shoulderBone, wristRotationOffset, tmps) ==
    [vrPerson |-> Person,
     getVrHand |-> getVrHand,
     ikTarget |-> ikTarget,
     ikTargetInitPos |-> tbs[ikTarget].position,
     wristBone |-> wristBone,
     wristRotationOffset |-> wristRotationOffset,
     wristBoneInitQuat |-> q[wristBone],
     maxDistanceSquared |->
         VecDistance(ConstructorTmps(q, wristBone, shoulderBone, tmps)),
     maxShoulderToControllderDistanceSquared |-> 0,
     shoulderBone |-> shoulderBone]

\* faulty variant: the limits taken in the order of the links
IKLinksInLinkOrder(sk, bones, rotationLimits) ==
    <<[index |-> FindIndex(sk.bones, bones[2]),
       rotationMin |-> LimitToVec(rotationLimits[1].rotationMin),
       rotationMax |-> LimitToVec(rotationLimits[1].rotationMax)],
      [index |-> FindIndex(sk.bones, bones[1]),
       rotationMin |-> LimitToVec(rotationLimits[2].rotationMin),
       rotationMax |-> LimitToVec(rotationLimits[2].rotationMax)]>>

\* the links of the ik entry handed to CCDIKSolver: link 0, link 1 (the code's
\* bones[1], bones[0] and rotationLimits[1], rotationLimits[0] count from 0)
IKLinks(sk, bones, rotationLimits) ==
    <<[index |-> FindIndex(sk.bones, bones[2]),
       rotationMin |-> LimitToVec(rotationLimits[2].rotationMin),
       rotationMax |-> LimitToVec(rotationLimits[2].rotationMax)],
      [index |-> FindIndex(sk.bones, bones[1]),
       rotationMin |-> LimitToVec(rotationLimits[1].rotationMin),
       rotationMax |-> LimitToVec(rotationLimits[1].rotationMax)]>>

CreateIKSettings(sk0, tbs0, q, name, bones, rotationLimits, vrHandGetter, rotationOffset, tmps) ==
    LET found == FindOrAddTargetBone(sk0, tbs0, q, name, bones[3])
        sk == found.skeleton
        tbs == found.targetBone
        ik == [target |-> FindIndex(sk.bones, name),
               effector |-> FindIndex(sk.bones, bones[3]),
               iteration |-> 2,
               \* -0.2 and 0.2 as fractions n/d
               minAngle |-> [n |-> -1, d |-> 5],
               maxAngle |-> [n |-> 1, d |-> 5],
               links |-> IKLinks(sk, bones, rotationLimits)]
        vrMapping ==
            NewVRMapping(tbs, q, vrHandGetter, name, bones[3], bones[1],
                SetFromEuler([k \in 1..3 |-> DegToRad(rotationOffset[k])]), tmps)
    IN  [skeleton |-> sk, targetBone |-> tbs, ik |-> ik, vrMapping |-> vrMapping,
         tmps |-> ConstructorTmps(q, bones[3], bones[1], tmps)]

\* an index findIndex did not resolve: bones[-1] is undefined
Unresolved(ik) ==
    \/ ik.target < 0 \/ ik.effector < 0
    \/ \E l \in 1..Len(ik.links) : ik.links[l].index < 0

Event(ev, i) == [ev |-> ev, i |-> i]

\* new CCDIKSolver(person, iks) is three.js code: handed a chain with an
\* unresolved index it may return or throw
NewSolver(iks) ==
    IF \E i \in 1..Len(iks) : Unresolved(iks[i])
    THEN {"returns", "throws"} ELSE {"returns"}

IntervalSec(opt) ==
    IF (opt # NoInterval /\ opt # 0) \/ opt = 0 THEN opt ELSE DEFAULT_INTERVAL_SEC

\* history: the last call; for tick its deltaTime, the accumulated time,
\* the steps it took in order, what the providers returned and the reach
\* maxima before the call; for the constructor the rotationLimitSet
NoCall ==
    [op |-> "none", deltaTime |-> 0, sec |-> 0, log |-> <<>>, hands |-> <<>>,
     before |-> <<>>, rotationLimitSet |-> <<>>]

Construct(intervalOpt, rotationLimitSet, vrHandGetter, wristRotationOffsetSet, isDebug) ==
    /\ gen < MaxInstances
    /\ LET leftArmBones == IF IsNotIncludeUndefined(armBones["left"])
                           THEN armBones["left"] ELSE <<>>
           rightArmBones == IF IsNotIncludeUndefined(armBones["right"])
                            THEN armBones["right"] ELSE <<>>
           sk0 == IF ~skeleton.defined
                  THEN NewSkeleton(leftArmBones \o rightArmBones) ELSE skeleton
           \* if (!_tmps) _tmps = new Tmps()
           tmps0 == IF ~_tmps.defined THEN NewTmps ELSE _tmps
           none == [skeleton |-> sk0, targetBone |-> targetBone, tmps |-> tmps0]
       IN  \E l \in {IF leftArmBones # <<>>
                     THEN CreateIKSettings(sk0, targetBone, quaternion, "leftArmIK",
                              leftArmBones, rotationLimitSet.leftArm,
                              [side |-> "left", configured |-> vrHandGetter.left],
                              wristRotationOffsetSet.left, tmps0)
                     ELSE none} :
           \E r \in {IF rightArmBones # <<>>
                     THEN CreateIKSettings(l.skeleton, l.targetBone, quaternion,
                              "rightArmIK", rightArmBones, rotationLimitSet.rightArm,
                              [side |-> "right", configured |-> vrHandGetter.right],
                              wristRotationOffsetSet.right, l.tmps)
                     ELSE [skeleton |-> l.skeleton, targetBone |-> l.targetBone,
                           tmps |-> l.tmps]} :
           \E iks \in {(IF leftArmBones # <<>> THEN <<l.ik>> ELSE <<>>)
                       \o (IF rightArmBones # <<>> THEN <<r.ik>> ELSE <<>>)} :
           \E vrMappings \in
                  {(IF leftArmBones # <<>> THEN <<l.vrMapping>> ELSE <<>>)
                   \o (IF rightArmBones # <<>> THEN <<r.vrMapping>> ELSE <<>>)} :
               /\ skeleton' = r.skeleton
               /\ targetBone' = r.targetBone
               /\ _tmps' = r.tmps
               /\ \E outcome \in NewSolver(iks) :
                      IF outcome = "returns"
                      THEN /\ _intervalSec' = IntervalSec(intervalOpt)
                           /\ _sec' = 0
                           /\ _solver' = [defined |-> TRUE, iks |-> iks]
                           /\ _vrMappings' = vrMappings
                           /\ gen' = gen + 1
                           \* the helper of the instance just made is known by
                           \* the instance's number
                           /\ _helper' = [defined |-> isDebug]
                           /\ scene' = IF isDebug THEN scene \cup {gen + 1} ELSE scene
                           /\ last' = [NoCall EXCEPT
                                          !.op = "construct",
                                          !.rotationLimitSet = rotationLimitSet]
                      \* the constructor throws: the caller gets no instance and
                      \* keeps the one it had
                      ELSE /\ last' = [NoCall EXCEPT
                                          !.op = "construct",
                                          !.log = <<Event("throw", 0)>>]
                           /\ UNCHANGED <<_intervalSec, _sec, _solver, _vrMappings,
                                          gen, _helper, scene>>
    /\ UNCHANGED <<armBones, person, quaternion, avatarVars, loaderVars, extVars>>

(***************************************************************************)
(* XR controllers: what a provider returns when tick calls it.  A          *)
(* controller object has a local position (the one tick tests against      *)
(* zero), a parent rig that places it in the world, and an orientation.    *)
(***************************************************************************)
NoHand == [defined |-> FALSE, position |-> ZeroV, rig |-> ZeroV, quaternion |-> IdQ]
HandWorldPosition(h) == VAdd(h.rig, h.position)
HandWorldQuaternion(h) == h.quaternion

\* placements of an active controller: offset from the shoulder (of integer
\* length: 7, 5, 14 and 70), position of the rig, orientation
AtSeven == [offset |-> <<7, 0, 0>>, rig |-> ZeroV, quaternion |-> IdQ]
AtFive == [offset |-> <<0, 3, 4>>, rig |-> <<0, 1, 0>>, quaternion |-> RotZ90]
AtFourteen == [offset |-> <<0, -14, 0>>, rig |-> ZeroV, quaternion |-> RotY90]
AtSeventy == [offset |-> <<0, 0, 70>>, rig |-> ZeroV, quaternion |-> RotX90]
\* a controller whose local position is exactly zero, on a rig away from the
\* origin of the world
AtZero == [offset |-> <<0, 3, 0>>, rig |-> ZeroV, quaternion |-> RotZ90]

\* the object the provider of arm a returns for a placement
Hand(a, c) ==
    LET s == GetWorldPosition(quaternion, ArmBoneNames(a)[1])
    IN  IF c = AtZero
        THEN [defined |-> TRUE, position |-> ZeroV, rig |-> VAdd(s, c.offset),
              quaternion |-> c.quaternion]
        ELSE [defined |-> TRUE, position |-> VSub(VAdd(s, c.offset), c.rig),
              rig |-> c.rig, quaternion |-> c.quaternion]
\* what the provider of arm a may return: a controller at one of the
\* placements, or (where the environment lets it) none
HandInputs(a, placements, absent) ==
    (IF a \in absent THEN {NoHand} ELSE {}) \cup {Hand(a, c) : c \in placements}

\* m.getVrHand(): () => vrHandGetter?.()
GetVrHand(m, hands) == IF m.getVrHand.configured THEN hands[m.getVrHand.side] ELSE NoHand

(***************************************************************************)
(* VRMapping.mapVRAvatar and VRMapping.reset.  Both return the mapping,    *)
(* the target bones and the bone quaternions after the call.               *)
(***************************************************************************)
\* faulty variant: the ratio without the square root
AlphaSquared(maxDistanceSquared, maxControllerSquared) ==
    [n |-> maxDistanceSquared, d |-> maxControllerSquared]
\* Math.sqrt(maxDistanceSquared / maxShoulderToControllderDistanceSquared)
Alpha(maxDistanceSquared, maxControllerSquared) ==
    [n |-> Sqrt(maxDistanceSquared), d |-> Sqrt(maxControllerSquared)]

\* faulty variant: the clamp taken at the boundary too
ExceedsReachOrEqual(distanceSquared, maxDistanceSquared) ==
    distanceSquared >= maxDistanceSquared
\* the comparison that selects the clamp
ExceedsReach(distanceSquared, maxDistanceSquared) ==
    distanceSquared > maxDistanceSquared

\* faulty variant: the measurement always taken
RaiseToAssign(max, v) == v
\* a running maximum raised to a new measurement
RaiseTo(max, v) == IF max < v THEN v ELSE max

\* faulty variant: the offset multiplied from the left
WristQuaternionOffsetFirst(parentWorldQuat, handWorldQuat, wristRotationOffset) ==
    MultiplyQuaternions(wristRotationOffset,
        MultiplyQuaternions(Invert(parentWorldQuat), handWorldQuat))
\* vrHand.getWorldQuaternion().premultiply(parentWorldQuat.invert()), then
\* multiplyQuaternions(vrHandQuat, this.wristRotationOffset)
WristQuaternion(parentWorldQuat, handWorldQuat, wristRotationOffset) ==
    LET vrHandQuat == MultiplyQuaternions(Invert(parentWorldQuat), handWorldQuat)
    IN  MultiplyQuaternions(vrHandQuat, wristRotationOffset)

\* faulty variant: the divisor read before the maximum is raised
DivisorBeforeRaise(before, raised) == before
\* the divisor of the clamp is the field as it is after the raise above it
Divisor(before, raised) == raised

\* the scratch objects after the arm is measured: shoulder in vec, wrist in
\* vec1
ArmMeasured(m, q, tmps) ==
    WriteVec1(WriteVec(tmps, RVec(GetWorldPosition(q, m.shoulderBone))),
              RVec(GetWorldPosition(q, m.wristBone)))
\* and after the controller is: controllerPos is vec, shoulderPos is vec1
ControllerMeasured(m, q, vrHand, tmps) ==
    WriteVec1(WriteVec(tmps, RVec(HandWorldPosition(vrHand))),
              RVec(GetWorldPosition(q, m.shoulderBone)))
\* the two branches that place the target: the clamp interpolates in vec1,
\* the other fetches the controller position into vec once more; the
\* inverted world matrix of this.ikTarget.parent, the avatar object, goes to
\* mat before the vector is taken through it
TargetClamped(tmps, alpha) == Vec1ToLocal(WriteMat(LerpVec1(tmps, alpha), person))
TargetFollowing(vrHand, tmps) ==
    VecToLocal(WriteMat(WriteVec(tmps, RVec(HandWorldPosition(vrHand))), person))
\* parentWorldQuat is quat1, vrHandQuat is quat
QuatsFetched(m, q, vrHand, tmps) ==
    WriteQuat(WriteQuat1(tmps, GetWorldQuaternion(q, Parent(m.wristBone))),
              HandWorldQuaternion(vrHand))
\* the wrist's quaternion from the two fetched
WristFrom(m, tmps) == WristQuaternion(tmps.quat1, tmps.quat, m.wristRotationOffset)

MapVRAvatar(m, tbs, q, hands, tmps) ==
    LET vrHand == GetVrHand(m, hands)
        t1 == ArmMeasured(m, q, tmps)
        maxDistanceSquared == RaiseTo(m.maxDistanceSquared, VecDistance(t1))
        t2 == ControllerMeasured(m, q, vrHand, t1)
        shoulderToControllderDistanceSquared == VecDistance(t2)
        maxControllerSquared ==
            RaiseTo(m.maxShoulderToControllderDistanceSquared,
                    shoulderToControllderDistanceSquared)
        clamps == ExceedsReach(shoulderToControllderDistanceSquared,
                               maxDistanceSquared)
        t3 == IF clamps
              THEN TargetClamped(t2, Alpha(maxDistanceSquared,
                               Divisor(m.maxShoulderToControllderDistanceSquared,
                                       maxControllerSquared)))
              ELSE TargetFollowing(vrHand, t2)
        position == IF clamps THEN t3.vec1 ELSE t3.vec
        t4 == QuatsFetched(m, q, vrHand, t3)
    IN  IF ~vrHand.defined
        THEN [m |-> m, targetBone |-> tbs, quaternion |-> q, tmps |-> tmps]
        ELSE [m |-> [m EXCEPT !.maxDistanceSquared = maxDistanceSquared,
                              !.maxShoulderToControllderDistanceSquared =
                                  maxControllerSquared],
              targetBone |-> [tbs EXCEPT ![m.ikTarget].position = position],
              quaternion |-> [q EXCEPT ![m.wristBone] = WristFrom(m, t4)],
              tmps |-> Premultiplied(t4)]

\* faulty variant: the wrist is left as it is
ResetTargetOnly(m, tbs, q) ==
    [m |-> m,
     targetBone |-> [tbs EXCEPT ![m.ikTarget].position = m.ikTargetInitPos],
     quaternion |-> q]

Reset(m, tbs, q) ==
    [m |-> m,
     targetBone |-> [tbs EXCEPT ![m.ikTarget].position = m.ikTargetInitPos],
     quaternion |-> [q EXCEPT ![m.wristBone] = m.wristBoneInitQuat]]

(***************************************************************************)
(* CCDIKSolver.updateOne(ik) is three.js code: it rotates the link bones   *)
(* of the chain and reads the effector and the target.  The model lets it  *)
(* leave the links in any of a set of poses <<link 0, link 1>>.            *)
(***************************************************************************)
Straight == <<IdQ, IdQ>>
Bent == <<RotZ90, RotY90>>

\* the links the solver rotates before it reads an undefined bone: all of
\* them in a sound chain, none without the effector, else those before the
\* first unresolved link
Rotated(ik) ==
    IF ik.effector < 0 \/ ik.target < 0 THEN {}
    ELSE {l \in 1..Len(ik.links) : \A j \in 1..l : ik.links[j].index >= 0}

UpdateOne(sk, q, ik, pose) ==
    [b \in DOMAIN q |->
        IF \E l \in Rotated(ik) : sk.bones[ik.links[l].index + 1] = b
        THEN pose[CHOOSE l \in Rotated(ik) : sk.bones[ik.links[l].index + 1] = b]
        ELSE q[b]]

(***************************************************************************)
(* AvatarIK.tick(deltaTime).                                               *)
(***************************************************************************)
\* faulty variant: the position in the world is tested
IsActiveWorld(hand) == hand.defined /\ HandWorldPosition(hand) # ZeroV
\* the test of tick on m.getVrHand()?.position
IsActive(hand) ==
    hand.defined /\ ~(hand.position[1] = 0 /\ hand.position[2] = 0
                      /\ hand.position[3] = 0)

\* faulty variant: the interval has to be exceeded
FiresStrict(sec, intervalSec) == sec > intervalSec
\* faulty variant: every call fires
FiresAlways(sec, intervalSec) == TRUE
\* the gate: whether the accumulated time lets the call through
Fires(sec, intervalSec) == ~(sec < intervalSec)

\* faulty variant: the loop stops one chain early
LoopConditionShort(i, length) == i < length - 1
\* i < this._vrMappings.length, for the code's i counting from 0
LoopCondition(i, length) == i < length


\* faulty variant: the chain is solved before its mapping is applied
LoopBodySolveFirst(i, st, hands, pose) ==
    LET m == st.vrMappings[i]
        vrHand == GetVrHand(m, hands)
        solved == UpdateOne(skeleton, st.quaternion, _solver.iks[i], pose)
        mapped == IF IsActive(vrHand)
                  THEN MapVRAvatar(m, st.targetBone, solved, hands, st.tmps)
                  ELSE Reset(m, st.targetBone, solved)
    IN  [vrMappings |-> [st.vrMappings EXCEPT ![i] = mapped.m],
         targetBone |-> mapped.targetBone,
         quaternion |-> mapped.quaternion,
         tmps |-> IF IsActive(vrHand) THEN mapped.tmps ELSE st.tmps,
         log |-> st.log \o
                 IF IsActive(vrHand)
                 THEN <<Event("getVrHand", i), Event("updateOne", i),
                        Event("mapVRAvatar", i), Event("getVrHand", i)>>
                 ELSE <<Event("getVrHand", i), Event("updateOne", i),
                        Event("reset", i)>>]
\* the body of the loop for chain i (i counts from 1): the mapping is applied
\* or reset, then the chain is solved; st is the state the loop works on:
\* vrMappings, targetBone, quaternion, tmps, log
LoopBody(i, st, hands, pose) ==
    LET m == st.vrMappings[i]
        vrHand == GetVrHand(m, hands)
        mapped == IF IsActive(vrHand)
                  THEN MapVRAvatar(m, st.targetBone, st.quaternion, hands,
                                   st.tmps)
                  ELSE Reset(m, st.targetBone, st.quaternion)
    IN  [vrMappings |-> [st.vrMappings EXCEPT ![i] = mapped.m],
         targetBone |-> mapped.targetBone,
         quaternion |-> UpdateOne(skeleton, mapped.quaternion,
                                  _solver.iks[i], pose),
         \* reset uses no scratch object
         tmps |-> IF IsActive(vrHand) THEN mapped.tmps ELSE st.tmps,
         log |-> st.log \o
                 IF IsActive(vrHand)
                 THEN <<Event("getVrHand", i), Event("mapVRAvatar", i),
                        Event("getVrHand", i), Event("updateOne", i)>>
                 ELSE <<Event("getVrHand", i), Event("reset", i),
                        Event("updateOne", i)>>]

\* the loop for the chains i, i+1, ...
RECURSIVE TickLoop(_, _, _, _)
TickLoop(i, st, hands, poses) ==
    IF ~LoopCondition(i - 1, Len(st.vrMappings)) THEN st
    ELSE LET after == LoopBody(i, st, hands, poses[i])
         IN  \* reading a property of an undefined bone throws a TypeError,
             \* which ends the call
             IF Unresolved(_solver.iks[i])
             THEN [after EXCEPT !.log = @ \o <<Event("throw", i)>>]
             ELSE TickLoop(i + 1, after, hands, poses)

\* the reach maxima of the mappings, for the history
Maxima(vrMappings) ==
    [i \in 1..Len(vrMappings) |->
        [maxDistanceSquared |-> vrMappings[i].maxDistanceSquared,
         maxShoulderToControllderDistanceSquared |->
             vrMappings[i].maxShoulderToControllderDistanceSquared]]

\* the state the loop of tick starts from
LoopState == [vrMappings |-> _vrMappings, targetBone |-> targetBone,
              quaternion |-> quaternion, tmps |-> _tmps, log |-> <<>>]

Tick(deltaTime, hands, poses) ==
    /\ gen > 0
    /\ \E sec \in {_sec + deltaTime} :
        \E st \in {IF Fires(sec, _intervalSec) /\ _solver.defined
                    THEN TickLoop(1, LoopState, hands, poses) ELSE LoopState} :
           /\ _sec' = IF Fires(sec, _intervalSec) THEN 0 ELSE sec
           /\ _vrMappings' = st.vrMappings
           /\ targetBone' = st.targetBone
           /\ quaternion' = st.quaternion
           /\ _tmps' = st.tmps
           /\ last' = [NoCall EXCEPT
                          !.op = "tick", !.deltaTime = deltaTime, !.sec = sec,
                          !.log = st.log,
                          !.hands = IF st.log = <<>> THEN <<>>
                                    ELSE [i \in 1..Len(_vrMappings) |->
                                             GetVrHand(_vrMappings[i], hands)],
                          !.before = IF st.log = <<>> THEN <<>>
                                     ELSE Maxima(_vrMappings)]
    /\ UNCHANGED <<armBones, person, skeleton, gen, _intervalSec, _solver,
                   _helper, scene, avatarVars, loaderVars, extVars>>

(***************************************************************************)
(* AvatarIK.dispose().                                                     *)
(***************************************************************************)
\* faulty variant: the solver is kept
DisposedKeepsSolver(inst) ==
    [solver |-> inst.solver,
     helper |-> [defined |-> FALSE],
     scene |-> IF inst.helper.defined THEN inst.scene \ {inst.id} ELSE inst.scene]
\* what dispose leaves of the instance inst: solver, helper, scene, id
Disposed(inst) ==
    [solver |-> [inst.solver EXCEPT !.defined = FALSE],
     helper |-> [defined |-> FALSE],
     scene |-> IF inst.helper.defined THEN inst.scene \ {inst.id} ELSE inst.scene]
\* the instance dispose is called on
Instance == [solver |-> _solver, helper |-> _helper, scene |-> scene, id |-> gen]

Dispose ==
    /\ gen > 0
    /\ \E d \in {Disposed(Instance)} :
           /\ _solver' = d.solver
           /\ _helper' = d.helper
           /\ scene' = d.scene
    /\ last' = [NoCall EXCEPT
                   !.op = "dispose",
                   !.log = IF _helper.defined
                           THEN <<Event("removeFromParent", gen)>> ELSE <<>>]
    /\ UNCHANGED <<armBones, person, quaternion, skeleton, targetBone, gen,
                   _intervalSec, _sec, _vrMappings, _tmps,
                   avatarVars, loaderVars, extVars>>

(***************************************************************************)
(* The system: an avatar, the AvatarIK instances a caller constructs on it *)
(* one after the other, and the calls on the current instance.  An         *)
(* environment env says which avatars, options and inputs are drawn.       *)
(***************************************************************************)
(***************************************************************************)
(* Avatar: animation clips.  A string is the sequence of its segments      *)
(* between dots: "idle" is <<"idle">>, "idle.with-ik" <<"idle", "with-ik">>,*)
(* the track name "Head.quaternion" <<"Head", "quaternion">>.  Names of    *)
(* bones and properties hold no dot.                                       *)
(***************************************************************************)
Name(str) == <<str>>
\* name + ".with-ik"
WithIK(name) == Append(name, "with-ik")
\* `${nodeName}.${propertyName}`
TrackName(nodeName, propertyName) == <<nodeName, propertyName>>
\* v.name.startsWith(n) with n = bone.name + "."
StartsWith(trackName, boneName) == Len(trackName) > 1 /\ trackName[1] = boneName

Track(nodeName, propertyName, values) ==
    [name |-> TrackName(nodeName, propertyName), values |-> values]
AnimationClip(name, duration, tracks) ==
    [name |-> name, duration |-> duration, tracks |-> tracks]
NoClip == [name |-> <<>>, duration |-> 0, tracks |-> <<>>]
NoAction == [defined |-> FALSE, clip |-> NoClip, enabled |-> FALSE]
NoClipCall == [op |-> "none", name |-> <<>>, v |-> FALSE, clip |-> NoClip]

\* Avatar.syncTargetBones: the head bone and the arm bones that were found
SyncTargetBones ==
    <<HeadBone>>
    \o SelectSeq(armBones["left"], LAMBDA v : v # Undefined)
    \o SelectSeq(armBones["right"], LAMBDA v : v # Undefined)

\* Array.find: the first clip of that name, or none
Find(clips, name) ==
    IF \E k \in 1..Len(clips) : clips[k].name = name
    THEN clips[CHOOSE k \in 1..Len(clips) :
                   clips[k].name = name /\ \A j \in 1..(k - 1) : clips[j].name # name]
    ELSE NoClip

\* the track belongs to a sync target bone
OfSyncTarget(track) ==
    \E k \in 1..Len(SyncTargetBones) : StartsWith(track.name, SyncTargetBones[k])

\* _getClip: the clip found or made, and the animations after the call
GetClip(clips, name, withIK) ==
    IF ~withIK THEN [clip |-> Find(clips, name), animations |-> clips]
    ELSE IF Find(clips, WithIK(name)) # NoClip
    THEN [clip |-> Find(clips, WithIK(name)), animations |-> clips]
    ELSE IF Find(clips, name) = NoClip
    THEN [clip |-> NoClip, animations |-> clips]
    ELSE LET orig == Find(clips, name)
             clip == AnimationClip(WithIK(name), orig.duration,
                         SelectSeq(orig.tracks, LAMBDA v : ~OfSyncTarget(v)))
         IN  [clip |-> clip, animations |-> Append(clips, clip)]

\* _setDefaultProperties: the first key of every sync target track of the
\* original clip is written to the bone (of several tracks of one bone the
\* last written stays)
SetDefaultProperties(clips, q, name) ==
    LET origClip == Find(clips, name)
        tracks == SelectSeq(origClip.tracks, LAMBDA v : OfSyncTarget(v))
        Writes(b) == {k \in 1..Len(tracks) :
                         tracks[k].name = TrackName(b, "quaternion")}
    IN  IF origClip = NoClip THEN q
        ELSE [b \in DOMAIN q |->
                 IF Writes(b) # {}
                 THEN tracks[CHOOSE k \in Writes(b) : \A j \in Writes(b) : j <= k].values
                 ELSE q[b]]

\* the state of the avatar that the clip methods read and write
AvatarState ==
    [animations |-> animations, ikEnabled |-> _ikEnabled,
     activeAction |-> _activeAction, mixer |-> _mixer, quaternion |-> quaternion]

\* the actions scheduled in the mixer with the fade each was last given
FadeOut(mixer, action) ==
    IF action.defined /\ action.clip.name \in DOMAIN mixer
    THEN [mixer EXCEPT ![action.clip.name] = "out"] ELSE mixer
Play(mixer, clip, fade) ==
    [n \in DOMAIN mixer \cup {clip.name} |-> IF n = clip.name THEN fade ELSE mixer[n]]
NoActions == [n \in {} |-> "none"]

PlayClip(av, name) ==
    LET withIK == av.ikEnabled
        faded == FadeOut(av.mixer, av.activeAction)
        hasPrev == av.activeAction.defined
        got == GetClip(av.animations, name, withIK)
    IN  IF got.clip = NoClip
        THEN [av EXCEPT !.mixer = faded, !.animations = got.animations]
        ELSE [av EXCEPT
                 !.animations = got.animations,
                 !.quaternion =
                     IF withIK
                     THEN SetDefaultProperties(got.animations, av.quaternion, name)
                     ELSE av.quaternion,
                 !.activeAction =
                     [defined |-> TRUE, clip |-> got.clip, enabled |-> TRUE],
                 !.mixer = Play(faded, got.clip, IF hasPrev THEN "in" ELSE "none")]

StopClip(av) ==
    IF av.activeAction.defined
    THEN [av EXCEPT !.activeAction = NoAction, !.mixer = NoActions]
    ELSE av

\* _idle, up to its first await
Idle(av) ==
    IF av.ikEnabled THEN PlayClip(StopClip(av), Name("idle"))
    ELSE PlayClip(av, Name("idle"))

SetIKMode(av, v) == Idle([av EXCEPT !.ikEnabled = v])

\* a call on the avatar leaves the state `to`
AvatarCall(to, call) ==
    /\ animations' = to.animations
    /\ _ikEnabled' = to.ikEnabled
    /\ _activeAction' = to.activeAction
    /\ _mixer' = to.mixer
    /\ quaternion' = to.quaternion
    /\ lastClip' = call
    /\ UNCHANGED <<armBones, person, skeleton, targetBone, gen, _intervalSec,
                   _sec, _solver, _vrMappings, _helper, scene, _tmps, last,
                   loaderVars, extVars>>

DoPlayClip(name) ==
    LET to == PlayClip(AvatarState, name)
    IN  AvatarCall(to, [NoClipCall EXCEPT
                           !.op = "playClip", !.name = name,
                           !.clip = GetClip(animations, name, _ikEnabled).clip])
DoStopClip ==
    AvatarCall(StopClip(AvatarState), [NoClipCall EXCEPT !.op = "stopClip"])
DoSetIKMode(v) ==
    AvatarCall(SetIKMode(AvatarState, v),
               [NoClipCall EXCEPT !.op = "setIKMode", !.v = v])

\* an IK-only run has no avatar clips
NoAvatar ==
    /\ animations = <<>>
    /\ _ikEnabled = FALSE
    /\ _activeAction = NoAction
    /\ _mixer = NoActions
    /\ lastClip = NoClipCall

(***************************************************************************)
(* loader.ts: preLoadAnimationData and loadAvatarModel are async; a call   *)
(* is started, waits, and settles.  Calls are numbered 1..MaxCalls.        *)
(***************************************************************************)
Calls == 1..MaxCalls
Null == [loaded |-> FALSE, keys |-> {}]
\* AvatarAnimationDataSource: the keys (walk and idle are required)
Sources == {{"walk", "idle"}, {"walk", "idle", "dance"}}
IdleCall == [state |-> "idle", source |-> {}]
IdleLoad == [state |-> "idle", error |-> "", animations |-> {},
             completedBefore |-> {}]
RequiredError == "preLoadAnimationData is required"

IsAnimationDataLoaded == avatarAnimationData.loaded

\* the call starts: every entry of the source is fetched
PreLoadAnimationData(c, source) ==
    /\ preloads[c].state = "idle"
    /\ preloads' = [preloads EXCEPT ![c] = [state |-> "fetching", source |-> source]]
    /\ UNCHANGED <<avatarAnimationData, loads>>
    /\ UNCHANGED <<ikVars, avatarVars, extVars>>

\* Promise.all settles: the variable is assigned when every fetch and parse
\* succeeded; a rejection leaves the function before the assignment
PreLoadSettles(c, ok) ==
    /\ preloads[c].state = "fetching"
    /\ preloads' = [preloads EXCEPT
                       ![c].state = IF ok THEN "resolved" ELSE "rejected"]
    /\ avatarAnimationData' =
           IF ok THEN [loaded |-> TRUE, keys |-> preloads[c].source]
           ELSE avatarAnimationData
    /\ UNCHANGED loads
    /\ UNCHANGED <<ikVars, avatarVars, extVars>>

\* the call starts: it waits for the GLTF loader and the parse
LoadAvatarModel(c) ==
    /\ loads[c].state = "idle"
    /\ loads' = [loads EXCEPT ![c].state = "parsing"]
    /\ UNCHANGED <<avatarAnimationData, preloads>>
    /\ UNCHANGED <<ikVars, avatarVars, extVars>>

\* faulty variant: the animation step goes on without the data
IsMissingNever(data) == FALSE
\* if (!avatarAnimationData)
IsMissing(data) == ~data.loaded

\* the rest of the call after the parse: parsed is "rejects" (the loader or
\* the parse failed), "noScene" (the file has no scene: model is undefined
\* and the assignment to model.animations throws) or "ok"; converts tells
\* whether every conversion of the animation step succeeds
LoadContinues(c, parsed, embedded, converts) ==
    /\ loads[c].state = "parsing"
    /\ LET completed == {p \in Calls : preloads[p].state = "resolved"}
           Rejected(error) ==
               [loads[c] EXCEPT !.state = "rejected", !.error = error]
       IN  loads' = [loads EXCEPT ![c] =
               IF parsed = "rejects" THEN Rejected("parse")
               ELSE IF parsed = "noScene" THEN Rejected("TypeError")
               ELSE IF IsMissing(avatarAnimationData)
               THEN [Rejected(RequiredError) EXCEPT !.completedBefore = completed]
               ELSE IF ~converts
               THEN [Rejected("hip not found") EXCEPT !.completedBefore = completed]
               ELSE [state |-> "resolved", error |-> "",
                     animations |-> embedded \cup avatarAnimationData.keys,
                     completedBefore |-> completed]]
    /\ UNCHANGED <<avatarAnimationData, preloads>>
    /\ UNCHANGED <<ikVars, avatarVars, extVars>>

\* a run that loads nothing
NoLoader ==
    /\ avatarAnimationData = Null
    /\ preloads = [c \in Calls |-> IdleCall]
    /\ loads = [c \in Calls |-> IdleLoad]

(***************************************************************************)
(* AutoWalker (src/src/ext/auto-walker.ts).  Positions are in units of     *)
(* 1/100, so that 0.05 is 5; time is in units of 1/120 s, so 0.3 s is 36.  *)
(***************************************************************************)
MoveThreshold == 5
WalkCheckTime == 36

NoPosition == [defined |-> FALSE, position |-> ZeroV]
NoWalkerCall ==
    [op |-> "none", dt |-> 0, visible |-> FALSE, newPos |-> ZeroV,
     request |-> "none",
     before |-> [isWalking |-> FALSE, walkCheckTimer |-> 0,
                 lastPosition |-> NoPosition]]

\* faulty variant: a change of height counts as movement too
HasMovedAnyAxis(lastPosition, newPos) ==
    \E k \in 1..3 : Abs(lastPosition[k] - newPos[k]) > MoveThreshold
\* Math.abs(last.x - new.x) > 0.05 || Math.abs(last.z - new.z) > 0.05
HasMoved(lastPosition, newPos) ==
    \/ Abs(lastPosition[1] - newPos[1]) > MoveThreshold
    \/ Abs(lastPosition[3] - newPos[3]) > MoveThreshold

\* this._avatar?.deref()?.playClip(name): the clip is requested if the
\* avatar is still there
PlayClipOf(avatar, log, name) == IF avatar = "alive" THEN Append(log, name) ELSE log

\* the walker as tick(dt) leaves it, and the clip it requested, for the
\* walker w: isWalking, walkCheckTimer, lastPosition, played
WalkerTick(w, object3D, avatar, dt) ==
    IF ~(object3D.defined /\ object3D.visible) THEN [w EXCEPT !.request = "none"]
    ELSE IF ~w.lastPosition.defined
    THEN [w EXCEPT !.lastPosition = [defined |-> TRUE, position |-> object3D.position],
                   !.request = "none"]
    ELSE IF HasMoved(w.lastPosition.position, object3D.position)
    THEN [w EXCEPT !.lastPosition.position = object3D.position,
                   !.isWalking = TRUE,
                   !.played = IF ~w.isWalking THEN PlayClipOf(avatar, @, "walk") ELSE @,
                   !.request = IF ~w.isWalking /\ avatar = "alive" THEN "walk" ELSE "none",
                   !.walkCheckTimer = 0]
    ELSE IF w.isWalking
    THEN IF w.walkCheckTimer + dt > WalkCheckTime
         THEN [w EXCEPT !.walkCheckTimer = @ + dt,
                        !.isWalking = FALSE,
                        !.played = PlayClipOf(avatar, @, "idle"),
                        !.request = IF avatar = "alive" THEN "idle" ELSE "none"]
         ELSE [w EXCEPT !.walkCheckTimer = @ + dt, !.request = "none"]
    ELSE [w EXCEPT !.request = "none"]

Walker ==
    [isWalking |-> _isWalking, walkCheckTimer |-> _walkCheckTimer,
     lastPosition |-> _lastPosition, played |-> played, request |-> "none"]

\* the longest time the history counts
SinceMovedCap == 2 * WalkCheckTime + 2
Min(a, b) == IF a < b THEN a ELSE b

\* AutoWalker.setup(avatar)
Setup ==
    /\ _avatar = "unset"
    /\ _avatar' = "alive"
    /\ _object3D' = [_object3D EXCEPT !.defined = TRUE]
    /\ lastWalk' = [NoWalkerCall EXCEPT !.op = "setup"]
    /\ UNCHANGED <<_isWalking, _walkCheckTimer, _lastPosition, played, sinceMoved>>
    /\ UNCHANGED <<ikVars, avatarVars, loaderVars, syncVars>>

\* AutoWalker.tick(dt)
DoWalkerTick(dt) ==
    /\ Len(played) < MaxPlayed
    /\ \E w \in {WalkerTick(Walker, _object3D, _avatar, dt)} :
           /\ _isWalking' = w.isWalking
           /\ _walkCheckTimer' = w.walkCheckTimer
           /\ _lastPosition' = w.lastPosition
           /\ played' = w.played
           /\ lastWalk' =
                  [op |-> "tick", dt |-> dt,
                   visible |-> _object3D.defined /\ _object3D.visible,
                   newPos |-> _object3D.position,
                   request |-> w.request,
                   before |-> [isWalking |-> _isWalking,
                               walkCheckTimer |-> _walkCheckTimer,
                               lastPosition |-> _lastPosition]]
    \* the history: time of the visible ticks since the last tick that saw
    \* the object more than the threshold away from the recorded position
    /\ sinceMoved' =
           IF ~(_object3D.defined /\ _object3D.visible) THEN sinceMoved
           ELSE IF _lastPosition.defined
                   /\ (\/ Abs(_lastPosition.position[1] - _object3D.position[1])
                              > MoveThreshold
                       \/ Abs(_lastPosition.position[3] - _object3D.position[3])
                              > MoveThreshold)
                THEN 0
           ELSE Min(sinceMoved + dt, SinceMovedCap)
    /\ UNCHANGED <<_object3D, _avatar>>
    /\ UNCHANGED <<ikVars, avatarVars, loaderVars, syncVars>>

\* the application moves the avatar's object, shows or hides it
MoveObject(position) ==
    /\ _object3D.position # position
    /\ _object3D' = [_object3D EXCEPT !.position = position]
    /\ lastWalk' = [NoWalkerCall EXCEPT !.op = "move"]
    /\ UNCHANGED <<_isWalking, _walkCheckTimer, _lastPosition, _avatar, played,
                   sinceMoved>>
    /\ UNCHANGED <<ikVars, avatarVars, loaderVars, syncVars>>
SetVisible(visible) ==
    /\ _object3D.visible # visible
    /\ _object3D' = [_object3D EXCEPT !.visible = visible]
    /\ lastWalk' = [NoWalkerCall EXCEPT !.op = "setVisible"]
    /\ UNCHANGED <<_isWalking, _walkCheckTimer, _lastPosition, _avatar, played,
                   sinceMoved>>
    /\ UNCHANGED <<ikVars, avatarVars, loaderVars, syncVars>>
\* the avatar is garbage collected: the WeakRef no longer gives it
Collected ==
    /\ _avatar = "alive"
    /\ _avatar' = "collected"
    /\ lastWalk' = [NoWalkerCall EXCEPT !.op = "collected"]
    /\ UNCHANGED <<_isWalking, _walkCheckTimer, _lastPosition, _object3D, played,
                   sinceMoved>>
    /\ UNCHANGED <<ikVars, avatarVars, loaderVars, syncVars>>

(***************************************************************************)
(* registerSyncAvatarHeadAndCamera.  The events of the XR manager and the  *)
(* timers of the waits run one at a time; a run of setupVR or setupNonVR   *)
(* goes on until it awaits or ends.  Every run is known by the number of   *)
(* the event that started it (the call at registration counts as one).     *)
(***************************************************************************)
Events == 1..MaxEvents
NoRun == [kind |-> "none", pc |-> "none"]
Started == {e \in Events : handlers[e].kind # "none"}

\* the objects and the saved values a run works on
SyncState ==
    [head |-> head, headOffset |-> headOffset, positions |-> positions,
     rotation |-> rotation, callbacks |-> callbacks]
Callback(cb, e) == [cb |-> cb, event |-> e]

\* setupVR from one of its waits on: for the avatar, then for the position
\* of the XR camera; then the offset is raised and onVR is invoked, whose
\* promise is awaited
VRFromWait(s, e, pc, avatar, manager) ==
    IF pc = "waitAvatar" /\ avatar = Undefined THEN [s |-> s, pc |-> "waitAvatar"]
    ELSE IF ~manager.cameraReady THEN [s |-> s, pc |-> "waitCamera"]
    ELSE [s |-> [s EXCEPT !.headOffset.position = "headHeight",
                          !.callbacks = Append(@, Callback("onVR", e))],
          pc |-> "awaitCallback"]
\* setupVR from its start: the positions and the rotation are saved, the
\* rotation of the offset is cleared (of the two saved positions the model
\* keeps that of the offset, the one a run changes)
SetupVR(s, e, avatar, manager) ==
    VRFromWait([s EXCEPT !.positions = s.headOffset.position,
                         !.rotation = s.headOffset.rotation,
                         !.headOffset.rotation = "zero"],
               e, "waitAvatar", avatar, manager)
\* setupNonVR: nothing is awaited before onNonVR is invoked
SetupNonVR(s, e) ==
    [s |-> [s EXCEPT !.head.rotation = "zero",
                     !.headOffset.rotation =
                         IF s.rotation # Undefined THEN s.rotation ELSE @,
                     !.headOffset.position =
                         IF s.positions # Undefined THEN s.positions ELSE @,
                     !.callbacks = Append(@, Callback("onNonVR", e))],
     pc |-> "awaitCallback"]

\* the number of the next event
NextEvent == Cardinality({e \in Events : handlers[e].kind # "none"}) + 1

\* the state a run leaves, and where the run is
Ran(e, kind, r) ==
    /\ head' = r.s.head
    /\ headOffset' = r.s.headOffset
    /\ positions' = r.s.positions
    /\ rotation' = r.s.rotation
    /\ callbacks' = r.s.callbacks
    /\ handlers' = [handlers EXCEPT ![e] = [kind |-> kind, pc |-> r.pc]]

\* registerSyncAvatarHeadAndCamera(xr, nonVrCamera, head, headOffset, ...)
RegisterSyncAvatarHeadAndCamera ==
    /\ ~registered
    /\ registered' = TRUE
    /\ IF xr.isPresenting
       THEN \E r \in {SetupVR(SyncState, NextEvent, getAvatar, xr)} :
                Ran(NextEvent, "setupVR", r)
       ELSE \E r \in {SetupNonVR(SyncState, NextEvent)} :
                Ran(NextEvent, "setupNonVR", r)
    /\ UNCHANGED <<xr, getAvatar>>
    /\ UNCHANGED <<ikVars, avatarVars, loaderVars, walkerVars>>

\* the manager dispatches sessionstart
SessionStart ==
    /\ registered /\ ~xr.isPresenting /\ NextEvent <= MaxEvents
    /\ xr' = [xr EXCEPT !.isPresenting = TRUE]
    /\ \E r \in {SetupVR(SyncState, NextEvent, getAvatar, xr')} :
           Ran(NextEvent, "setupVR", r)
    /\ UNCHANGED <<getAvatar, registered>>
    /\ UNCHANGED <<ikVars, avatarVars, loaderVars, walkerVars>>

\* the manager dispatches sessionend; whether the XR camera keeps the
\* position of its last frame is up to three.js
SessionEnd(keeps) ==
    /\ registered /\ xr.isPresenting /\ NextEvent <= MaxEvents
    /\ xr' = [isPresenting |-> FALSE, cameraReady |-> xr.cameraReady /\ keeps]
    /\ \E r \in {SetupNonVR(SyncState, NextEvent)} :
           Ran(NextEvent, "setupNonVR", r)
    /\ UNCHANGED <<getAvatar, registered>>
    /\ UNCHANGED <<ikVars, avatarVars, loaderVars, walkerVars>>

\* a session that starts or ends before the listeners are added
Presenting(on) ==
    /\ ~registered /\ xr.isPresenting # on
    /\ xr' = [xr EXCEPT !.isPresenting = on]
    /\ UNCHANGED <<getAvatar, head, headOffset, positions, rotation, registered,
                   handlers, callbacks>>
    /\ UNCHANGED <<ikVars, avatarVars, loaderVars, walkerVars>>

\* the timer of a wait of run e fires and the run goes on
Resume(e) ==
    /\ handlers[e].pc \in {"waitAvatar", "waitCamera"}
    /\ \E r \in {VRFromWait(SyncState, e, handlers[e].pc, getAvatar, xr)} :
           /\ r.pc # handlers[e].pc
           /\ Ran(e, "setupVR", r)
    /\ UNCHANGED <<xr, getAvatar, registered>>
    /\ UNCHANGED <<ikVars, avatarVars, loaderVars, walkerVars>>

\* the promise the callback of run e returned settles; the run ends
Settle(e) ==
    /\ handlers[e].pc = "awaitCallback"
    /\ handlers' = [handlers EXCEPT ![e].pc = "done"]
    /\ UNCHANGED <<xr, getAvatar, head, headOffset, positions, rotation, registered,
                   callbacks>>
    /\ UNCHANGED <<ikVars, avatarVars, loaderVars, walkerVars>>

\* the application has loaded its avatar
AvatarLoaded ==
    /\ getAvatar = Undefined
    /\ getAvatar' = "avatar"
    /\ UNCHANGED <<xr, head, headOffset, positions, rotation, registered, handlers,
                   callbacks>>
    /\ UNCHANGED <<ikVars, avatarVars, loaderVars, walkerVars>>

\* a frame of the session has given the XR camera its position
CameraInitialized ==
    /\ xr.isPresenting /\ ~xr.cameraReady
    /\ xr' = [xr EXCEPT !.cameraReady = TRUE]
    /\ UNCHANGED <<getAvatar, head, headOffset, positions, rotation, registered,
                   handlers, callbacks>>
    /\ UNCHANGED <<ikVars, avatarVars, loaderVars, walkerVars>>

\* before registration: no session, no avatar yet, the camera as the
\* application turned it
NoSync ==
    /\ xr = [isPresenting |-> FALSE, cameraReady |-> FALSE]
    /\ getAvatar = Undefined
    /\ head = [rotation |-> "turned"]
    /\ headOffset = [rotation |-> "turned", position |-> "nonVR"]
    /\ positions = Undefined
    /\ rotation = Undefined
    /\ registered = FALSE
    /\ handlers = [e \in Events |-> NoRun]
    /\ callbacks = <<>>

\* the walker after its constructor
NoWalker ==
    /\ _isWalking = FALSE
    /\ _walkCheckTimer = 0
    /\ _lastPosition = NoPosition
    /\ _object3D = [defined |-> FALSE, visible |-> TRUE, position |-> ZeroV]
    /\ _avatar = "unset"
    /\ played = <<>>
    /\ sinceMoved = 0
    /\ lastWalk = NoWalkerCall

NoExt == NoWalker /\ NoSync

RestQuaternions(bends) ==
    {[b \in AllArmBones \cup {HeadBone} |->
         CASE b = "LeftHand" -> RotX90
           [] b = "RightHand" -> RotZ90
           [] b = "LeftForeArm" -> bend
           [] OTHER -> IdQ] : bend \in bends}

InitIK(env) ==
    /\ armBones \in {[a \in ArmSet |-> IKTargetBones(a, pat[a])] : pat \in env.patterns}
    /\ person \in env.persons
    /\ quaternion \in RestQuaternions(env.bends)
    /\ skeleton \in env.skeletons
    /\ targetBone = [n \in TargetNames |-> NoTargetBone]
    /\ gen = 0
    /\ _intervalSec = 0
    /\ _sec = 0
    /\ _solver = [defined |-> FALSE, iks |-> <<>>]
    /\ _vrMappings = <<>>
    /\ _helper = [defined |-> FALSE]
    /\ scene = {}
    /\ _tmps = NoTmps
    /\ last = NoCall

InitWith(env) == InitIK(env) /\ NoAvatar /\ NoLoader /\ NoExt

\* inputs a call of tick does not read are not varied
Runs(dt) == Fires(_sec + dt, _intervalSec) /\ _solver.defined
TickHands(a, dt, env) ==
    IF Runs(dt) /\ \E i \in 1..Len(_vrMappings) :
                       /\ _vrMappings[i].getVrHand.side = a
                       /\ _vrMappings[i].getVrHand.configured
    THEN HandInputs(a, env.placements[a], env.absent) ELSE {NoHand}
TickPoses(i, dt, env) ==
    IF Runs(dt) /\ i <= Len(_vrMappings) THEN env.poses[i] ELSE {Straight}

NextWith(env) ==
    \/ \E o \in env.options :
           Construct(o.intervalSec, o.rotationLimitSet, o.vrHandGetter,
                     o.wristRotationOffsetSet, o.isDebug)
    \/ \E dt \in env.deltas :
         \E hl \in TickHands("left", dt, env), hr \in TickHands("right", dt, env),
            p1 \in TickPoses(1, dt, env), p2 \in TickPoses(2, dt, env) :
             Tick(dt, [a \in ArmSet |-> IF a = "left" THEN hl ELSE hr], <<p1, p2>>)
    \/ Dispose

Options(i, l, g, w, d) ==
    [intervalSec |-> i, rotationLimitSet |-> l, vrHandGetter |-> g,
     wristRotationOffsetSet |-> w, isDebug |-> d]
Both == [left |-> TRUE, right |-> TRUE]
LeftOnly == [left |-> TRUE, right |-> FALSE]
RightOnly == [left |-> FALSE, right |-> TRUE]

\* the scheduler's environment: every combination of found and missing arm
\* bones; the interval absent, 0 and 3; both providers or one; few placements
Env ==
    [patterns |-> [ArmSet -> BonePatterns],
     persons |-> {[position |-> ZeroV, quaternion |-> IdQ]},
     skeletons |-> {NoSkeleton},
     bends |-> {IdQ},
     options |-> {Options(NoInterval, RotationLimitSetRpm, Both, OffsetsA, TRUE),
                  Options(0, RotationLimitSetVrmV1, RightOnly, OffsetsA, FALSE),
                  Options(3, RotationLimitSetOpen, LeftOnly, OffsetsB, FALSE)},
     deltas |-> 0..MaxDelta,
     placements |-> [a \in ArmSet |-> IF a = "left" THEN {AtZero, AtFive} ELSE {AtFive}],
     absent |-> {"left"},
     poses |-> <<{Bent}, {Straight, Bent}>>]

Init == InitWith(Env)
Next == NextWith(Env)
Spec == Init /\ [][Next]_vars

\* the reach mapper's environment: one arm, every placement of its
\* controller, a bent or a straight rest pose, a moved and turned avatar
ReachEnv ==
    [patterns |-> {[a \in ArmSet |-> IF a = "left" THEN <<TRUE, TRUE, TRUE>>
                                                   ELSE <<TRUE, TRUE, FALSE>>]},
     persons |-> {[position |-> <<2, 0, -1>>, quaternion |-> RotY90]},
     skeletons |-> {NoSkeleton},
     bends |-> {IdQ, RotZ90},
     options |-> {Options(0, RotationLimitSetVrmV1, Both, OffsetsA, FALSE),
                  Options(0, RotationLimitSetVrmV1, Both, OffsetsB, FALSE)},
     deltas |-> {1},
     placements |-> [a \in ArmSet |->
                        {AtZero, AtFive, AtSeven, AtFourteen, AtSeventy}],
     absent |-> {"left"},
     poses |-> <<{Straight, Bent}, {Straight}>>]

InitReach == InitWith(ReachEnv)
NextReach == NextWith(ReachEnv)
SpecReach == InitReach /\ [][NextReach]_vars

\* a target that already carries a skeleton (the branch not taken at line
\* 127): with every arm bone, without the right upper arm, without the left
\* hand
WholeSkeleton ==
    NewSkeleton(<<"LeftArm", "LeftForeArm", "LeftHand",
                  "RightArm", "RightForeArm", "RightHand">>)
NoRightArmSkeleton ==
    NewSkeleton(<<"LeftArm", "LeftForeArm", "LeftHand",
                  "RightForeArm", "RightHand">>)
NoLeftHandSkeleton ==
    NewSkeleton(<<"LeftArm", "LeftForeArm",
                  "RightArm", "RightForeArm", "RightHand">>)

\* the environment of a caller that constructs AvatarIK directly on such a
\* target, all six arm bones given
ConfigEnv ==
    [patterns |-> {[a \in ArmSet |-> <<TRUE, TRUE, TRUE>>]},
     persons |-> {[position |-> ZeroV, quaternion |-> IdQ]},
     skeletons |-> {WholeSkeleton, NoRightArmSkeleton, NoLeftHandSkeleton},
     bends |-> {IdQ},
     options |-> {Options(0, RotationLimitSetVrmV1, Both, OffsetsA, FALSE),
                  Options(NoInterval, RotationLimitSetOpen, LeftOnly, OffsetsA, TRUE)},
     deltas |-> {1},
     placements |-> [a \in ArmSet |-> {AtFive}],
     absent |-> {"left"},
     poses |-> <<{Straight, Bent}, {Bent}>>]

InitConfig == InitWith(ConfigEnv)
NextConfig == NextWith(ConfigEnv)
SpecConfig == InitConfig /\ [][NextConfig]_vars

(***************************************************************************)
(* The clips of a loaded avatar: loadAvatarModel converts one clip per key *)
(* of the animation data source, named by the key.                         *)
(***************************************************************************)
IdleClip ==
    AnimationClip(Name("idle"), 2,
        <<Track(HipsBone, "position", ZeroV), Track(HipsBone, "quaternion", IdQ),
          Track(HeadBone, "quaternion", IdQ),
          Track("LeftArm", "quaternion", RotZ90),
          Track("LeftForeArm", "quaternion", IdQ),
          Track("LeftHand", "quaternion", IdQ),
          Track("RightArm", "quaternion", RotZ90),
          Track("RightForeArm", "quaternion", IdQ),
          Track("RightHand", "quaternion", IdQ)>>)
WalkClip ==
    AnimationClip(Name("walk"), 1,
        <<Track(HipsBone, "position", ZeroV),
          Track("LeftArm", "quaternion", RotX90),
          Track("RightArm", "quaternion", RotX90)>>)
WaveClip ==
    AnimationClip(Name("wave"), 3,
        <<Track(HeadBone, "quaternion", RotY90),
          Track("RightArm", "quaternion", RotZ90),
          Track("RightHand", "quaternion", RotY90),
          Track(HipsBone, "quaternion", IdQ)>>)
\* a clip the data source names "wave.with-ik"
WaveWithIKClip == [WaveClip EXCEPT !.name = WithIK(Name("wave"))]

ClipNames == {Name("idle"), Name("walk"), Name("wave"), Name("jump")}

\* the avatar after its constructor: not in IK mode, the idle clip playing
InitAvatar ==
    /\ animations \in {<<IdleClip, WalkClip, WaveClip>>,
                       <<IdleClip, WalkClip, WaveClip, WaveWithIKClip>>}
    /\ _ikEnabled = FALSE
    /\ _activeAction = [defined |-> TRUE, clip |-> IdleClip, enabled |-> TRUE]
    /\ _mixer = Play(NoActions, IdleClip, "none")
    /\ lastClip = NoClipCall

\* the avatar alone: every combination of found and missing arm bones
ClipEnv ==
    [patterns |-> [ArmSet -> BonePatterns],
     persons |-> {[position |-> ZeroV, quaternion |-> IdQ]},
     skeletons |-> {NoSkeleton},
     bends |-> {IdQ}]

InitClip == InitIK(ClipEnv) /\ InitAvatar /\ NoLoader /\ NoExt
NextClip ==
    \/ \E name \in ClipNames : DoPlayClip(name)
    \/ DoStopClip
    \/ \E v \in BOOLEAN : DoSetIKMode(v)
SpecClip == InitClip /\ [][NextClip]_vars

\* the loader alone, its calls interleaved in every order
StillEnv ==
    [patterns |-> {[a \in ArmSet |-> <<TRUE, TRUE, TRUE>>]},
     persons |-> {[position |-> ZeroV, quaternion |-> IdQ]},
     skeletons |-> {NoSkeleton},
     bends |-> {IdQ}]
InitLoader == InitWith(StillEnv)
NextLoader ==
    \/ \E c \in Calls, source \in Sources : PreLoadAnimationData(c, source)
    \/ \E c \in Calls, ok \in BOOLEAN : PreLoadSettles(c, ok)
    \/ \E c \in Calls : LoadAvatarModel(c)
    \/ \E c \in Calls, parsed \in {"ok", "rejects", "noScene"},
          embedded \in {{}, {"idle"}}, converts \in BOOLEAN :
           LoadContinues(c, parsed, embedded, converts)
SpecLoader == InitLoader /\ [][NextLoader]_vars

\* the walker alone: the object moved about a small set of places, ticks of
\* no time, 0.15 s, 0.3 s and a little more
WalkerPlaces == {ZeroV, <<5, 0, 0>>, <<6, 0, 0>>, <<0, 50, 0>>, <<0, 0, -6>>}
WalkerDeltas == {0, 18, 36, 37}
InitWalker == InitWith(StillEnv)
NextWalker ==
    \/ Setup
    \/ \E dt \in WalkerDeltas : DoWalkerTick(dt)
    \/ \E position \in WalkerPlaces : MoveObject(position)
    \/ \E visible \in BOOLEAN : SetVisible(visible)
    \/ Collected
SpecWalker == InitWalker /\ [][NextWalker]_vars

\* the camera sync alone: sessions start and end while the avatar loads
InitSync == InitWith(StillEnv)
NextSync ==
    \/ RegisterSyncAvatarHeadAndCamera
    \/ SessionStart
    \/ \E keeps \in BOOLEAN : SessionEnd(keeps)
    \/ \E on \in BOOLEAN : Presenting(on)
    \/ \E e \in Events : Resume(e)
    \/ \E e \in Events : Settle(e)
    \/ AvatarLoaded
    \/ CameraInitialized
SpecSync == InitSync /\ [][NextSync]_vars

(***************************************************************************)
(* Properties.  The history variable last tells what the last call did;    *)
(* the steps of a tick are read from last.log.                             *)
(***************************************************************************)
Chains == 1..Len(_vrMappings)
Count(e) == Cardinality({k \in 1..Len(last.log) : last.log[k] = e})
\* chain i took one path, mapped or reset, and was solved once, after it
Processed(i) ==
    /\ Count(Event("mapVRAvatar", i)) + Count(Event("reset", i)) = 1
    /\ Count(Event("updateOne", i)) = 1
    /\ \A j, k \in 1..Len(last.log) :
           /\ last.log[j] \in {Event("mapVRAvatar", i), Event("reset", i)}
           /\ last.log[k] = Event("updateOne", i)
           => j < k
Mapped(i) == last.op = "tick" /\ Count(Event("mapVRAvatar", i)) = 1
WasReset(i) == last.op = "tick" /\ Count(Event("reset", i)) = 1
\* world position of the shoulder of mapping m (the upper arm hangs under the
\* avatar object, so no bone rotation moves it)
ShoulderWorld(m) == GetWorldPosition(quaternion, m.shoulderBone)
\* world position of the IK target of mapping m, a rational vector
TargetWorld(m) == ApplyMatrixWorld(person, targetBone[m.ikTarget].position)

\* C1: tick adds deltaTime to the accumulator.  The call fires exactly when
\* the accumulated time is >= the interval: a fire resets the accumulator to
\* 0, whatever the overshoot, and (on an instance that has not been disposed,
\* the only one tick may be called on) updates every chain once.  Below the
\* interval the call keeps the accumulated time and changes nothing else.
C1_TickGate ==
    [][last'.op = "tick" =>
          LET acc == _sec + last'.deltaTime
          IN  /\ last'.sec = acc
              /\ acc >= _intervalSec =>
                     /\ _sec' = 0
                     /\ _solver.defined => (\A i \in Chains : Processed(i))'
              /\ acc < _intervalSec =>
                     /\ _sec' = acc
                     /\ last'.log = <<>>
                     /\ UNCHANGED <<_vrMappings, targetBone, quaternion>>]_vars
\* a fire that overshoots the interval with time accumulated over several
\* calls and updates both chains
C1_Witness ==
    /\ last.op = "tick" /\ _solver.defined
    /\ last.sec > _intervalSec /\ last.deltaTime < last.sec /\ _sec = 0
    /\ Len(_vrMappings) = 2
    /\ \A i \in Chains : Processed(i)

\* C2: a tick processes either every chain of the instance exactly once
\* (mapped or reset, then solved) or none of them, and a fire on an instance
\* that has not been disposed processes every chain.
C2_AllChainsOnce ==
    last.op = "tick" =>
        /\ \A k \in 1..Len(last.log) : last.log[k].i \in Chains
        /\ last.log = <<>> \/ \A i \in Chains : Processed(i)
        /\ last.sec >= _intervalSec /\ _solver.defined =>
               \A i \in Chains : Processed(i)
\* a fire with two chains, one mapped and the other reset
C2_Witness ==
    /\ Len(_vrMappings) = 2
    /\ Mapped(1) /\ WasReset(2)
    /\ \A i \in Chains : Processed(i)

\* C3: over any call that is not a construction neither maximum of a chain
\* decreases, and a tick leaves each maximum as it was or raises it to the
\* squared distance it measured: shoulder to wrist for maxDistanceSquared,
\* shoulder to controller for maxShoulderToControllderDistanceSquared.
C3_MaximaGrow ==
    [][gen' = gen =>
          \A i \in Chains :
              LET m == _vrMappings[i]
                  n == _vrMappings'[i]
                  wrist == DistanceToSquared(ShoulderWorld(m),
                               GetWorldPosition(quaternion, m.wristBone))
                  hand == DistanceToSquared(ShoulderWorld(m),
                              HandWorldPosition(last'.hands[i]))
              IN  /\ n.maxDistanceSquared >= m.maxDistanceSquared
                  /\ n.maxShoulderToControllderDistanceSquared
                         >= m.maxShoulderToControllderDistanceSquared
                  /\ n.maxDistanceSquared \in {m.maxDistanceSquared, wrist}
                  /\ \/ n.maxShoulderToControllderDistanceSquared
                            = m.maxShoulderToControllderDistanceSquared
                     \/ /\ Mapped(i)'
                        /\ n.maxShoulderToControllderDistanceSquared = hand]_vars
\* a mapped tick that measured a controller nearer than the farthest seen
\* before and kept both maxima
C3_Witness ==
    /\ Len(_vrMappings) >= 1 /\ Mapped(1)
    /\ LET m == _vrMappings[1]
       IN  /\ DistanceToSquared(ShoulderWorld(m), HandWorldPosition(last.hands[1]))
                  < m.maxShoulderToControllderDistanceSquared
           /\ last.before[1].maxShoulderToControllderDistanceSquared
                  = m.maxShoulderToControllderDistanceSquared
           /\ last.before[1].maxDistanceSquared = m.maxDistanceSquared

\* what the constructor captured for chain i is kept until the next
\* construction
KeepsCaptured ==
    gen' = gen =>
        \A i \in Chains :
            /\ _vrMappings'[i].ikTargetInitPos = _vrMappings[i].ikTargetInitPos
            /\ _vrMappings'[i].wristBoneInitQuat = _vrMappings[i].wristBoneInitQuat
\* the chain is at the rest target, and a further reset changes nothing
AtRest(i) ==
    LET m == _vrMappings[i]
    IN  /\ targetBone[m.ikTarget].position = m.ikTargetInitPos
        /\ quaternion[m.wristBone] = m.wristBoneInitQuat
        /\ Reset(m, targetBone, quaternion)
               = [m |-> m, targetBone |-> targetBone, quaternion |-> quaternion]

\* C4: after a fire tick that reset chain i (its controller inactive: the
\* zero sentinel, or none), the local position of the IK target is the
\* initial target position and the local quaternion of the wrist is the rest
\* quaternion, both as captured at construction, whatever calls came before;
\* resetting once more changes nothing.
C4_ResetRestores ==
    /\ [](\A i \in Chains : WasReset(i) => AtRest(i))
    /\ [][KeepsCaptured]_vars
\* a tick with the zero sentinel, after the controller had been mapped
C4_Witness ==
    /\ Len(_vrMappings) >= 1 /\ WasReset(1) /\ AtRest(1)
    /\ last.hands[1].defined /\ last.hands[1].position = ZeroV
    /\ last.before[1].maxShoulderToControllderDistanceSquared > 0

\* C5: in a fire tick on an instance that has not been disposed each chain
\* takes exactly one path before it is solved: mapVRAvatar if and only if its
\* provider is configured and returns a controller whose local position is
\* not exactly (0,0,0), reset in every other case.
C5_MapOrReset ==
    last.op = "tick" /\ last.sec >= _intervalSec /\ _solver.defined =>
        \A i \in Chains :
            LET hand == last.hands[i]
                active == /\ _vrMappings[i].getVrHand.configured
                          /\ hand.defined
                          /\ hand.position # ZeroV
            IN  /\ Processed(i)
                /\ active <=> Count(Event("mapVRAvatar", i)) = 1
                /\ ~active <=> Count(Event("reset", i)) = 1
\* a fire in which one controller is the zero sentinel on a rig away from
\* the origin, and is reset, and the other is active, and is mapped
C5_Witness ==
    /\ Len(_vrMappings) = 2 /\ WasReset(1) /\ Mapped(2)
    /\ last.hands[1].defined /\ last.hands[1].position = ZeroV
    /\ HandWorldPosition(last.hands[1]) # ZeroV

\* squared distance from the shoulder of chain i to the controller the
\* provider returned in the last tick
ControllerDistanceSquared(i) ==
    DistanceToSquared(ShoulderWorld(_vrMappings[i]),
                      HandWorldPosition(last.hands[i]))

\* C6: a mapped tick whose squared shoulder-to-controller distance is at most
\* maxDistanceSquared, the boundary included, puts the IK target at the
\* position of the controller; the target is elsewhere only if the distance
\* strictly exceeds maxDistanceSquared.
C6_NoClampAtBoundary ==
    \A i \in Chains :
        Mapped(i) /\ ControllerDistanceSquared(i) <= _vrMappings[i].maxDistanceSquared
            => TargetWorld(_vrMappings[i]) = RVec(HandWorldPosition(last.hands[i]))
\* a controller exactly at the reach, after a farther one had been seen
C6_Witness ==
    /\ Len(_vrMappings) >= 1 /\ Mapped(1)
    /\ ControllerDistanceSquared(1) = _vrMappings[1].maxDistanceSquared
    /\ _vrMappings[1].maxShoulderToControllderDistanceSquared
           > ControllerDistanceSquared(1)
    /\ TargetWorld(_vrMappings[1]) = RVec(HandWorldPosition(last.hands[1]))

\* the first mapped tick of chain i, with the controller at 10 times the reach
TenTimesFirst(i) ==
    /\ Mapped(i)
    /\ last.before[i].maxShoulderToControllderDistanceSquared = 0
    /\ ControllerDistanceSquared(i) = 100 * _vrMappings[i].maxDistanceSquared
\* the target of chain i is a tenth of the way from the shoulder to the
\* controller, at squared distance maxDistanceSquared from the shoulder
OnReachBoundary(i) ==
    LET m == _vrMappings[i]
        w == TargetWorld(m)
        s == ShoulderWorld(m)
        c == HandWorldPosition(last.hands[i])
        r == VSub(w.n, VScale(w.d, s))
    IN  /\ VScale(10, r) = VScale(w.d, VSub(c, s))
        /\ DistanceToSquared(r, ZeroV) = m.maxDistanceSquared * w.d * w.d

\* C7: on the first observation of a chain, with the controller at 10 times
\* the rest distance from the shoulder, the target is put on the line from
\* the shoulder to the controller at squared distance exactly
\* maxDistanceSquared from the shoulder (alpha = 1/10).
C7_ClampBoundaryExact ==
    \A i \in Chains : TenTimesFirst(i) => OnReachBoundary(i)
\* the reach still the rest distance of the straight arm, the controller at
\* ten times that
C7_Witness ==
    /\ Len(_vrMappings) >= 1 /\ TenTimesFirst(1) /\ OnReachBoundary(1)
    /\ last.before[1].maxDistanceSquared = _vrMappings[1].maxDistanceSquared
    /\ _vrMappings[1].maxDistanceSquared = 49

Disabled(a) == \E k \in 1..3 : armBones[a][k] = Undefined
ArmNames(a) == {ArmBoneNames(a)[k] : k \in 1..3} \cup {TargetName(a)}
\* no mapping and no chain refers to arm a, and arm a has no target bone
NoChain(a) ==
    /\ ~targetBone[TargetName(a)].exists
    /\ \A i \in Chains :
           LET m == _vrMappings[i]
               ik == _solver.iks[i]
           IN  /\ m.getVrHand.side # a
               /\ {m.wristBone, m.shoulderBone, m.ikTarget} \cap ArmNames(a) = {}
               /\ \A j \in {ik.target, ik.effector, ik.links[1].index,
                            ik.links[2].index} :
                      j >= 0 => skeleton.bones[j + 1] \notin ArmNames(a)
\* a tick leaves arm a alone and does not call its provider
TickSpares(a) ==
    last'.op = "tick" =>
        /\ \A k \in 1..3 :
               quaternion'[ArmBoneNames(a)[k]] = quaternion[ArmBoneNames(a)[k]]
        /\ targetBone'[TargetName(a)] = targetBone[TargetName(a)]
        /\ \A k \in 1..Len(last'.log) :
               last'.log[k].ev = "getVrHand" =>
                   _vrMappings[last'.log[k].i].getVrHand.side # a

\* C8: an arm with an undefined bone has no chain, no mapping and no target
\* bone, and no tick changes the quaternion of a bone of that arm (positions
\* of arm bones are never written at all) or calls its provider; the other
\* arm is driven all the same.
C8_DisabledArmUntouched ==
    /\ [](\A a \in ArmSet : Disabled(a) => NoChain(a))
    /\ [][\A a \in ArmSet : Disabled(a) => TickSpares(a)]_vars
\* the right arm disabled, the left arm mapped and moved by the solver
C8_Witness ==
    /\ Disabled("right") /\ ~Disabled("left")
    /\ Len(_vrMappings) = 1 /\ Mapped(1)
    /\ quaternion["LeftForeArm"] # IdQ

\* the two arrays of the skeleton have the same length, entry for entry
Aligned(sk) ==
    /\ Len(sk.bones) = Len(sk.boneInverses)
    /\ \A k \in 1..Len(sk.bones) : sk.boneInverses[k].of = sk.bones[k]
\* a call appends one entry to each array for each target bone it creates
AppendsPerTarget ==
    LET new == {n \in TargetNames : ~targetBone[n].exists /\ targetBone'[n].exists}
        base == IF skeleton.defined THEN Len(skeleton.bones)
                ELSE 3 * Cardinality({a \in ArmSet : ~Disabled(a)})
    IN  /\ Len(skeleton'.bones) = base + Cardinality(new)
        /\ Len(skeleton'.boneInverses) = base + Cardinality(new)
        /\ \A n \in new :
               Cardinality({k \in 1..Len(skeleton'.bones) : skeleton'.bones[k] = n}) = 1
        /\ skeleton.defined =>
               /\ SubSeq(skeleton'.bones, 1, base) = skeleton.bones
               /\ SubSeq(skeleton'.boneInverses, 1, base) = skeleton.boneInverses

\* C9: after any sequence of constructions skeleton.bones and
\* skeleton.boneInverses have the same length and boneInverses[i] is the
\* entry made for bones[i]; creating a target bone appends exactly one
\* element to each.
C9_SkeletonAligned ==
    /\ []Aligned(skeleton)
    /\ [][AppendsPerTarget]_vars
\* a second instance that found both target bones of the first
C9_Witness ==
    /\ gen = 2 /\ last.op = "construct"
    /\ \A n \in TargetNames : targetBone[n].exists
    /\ Len(skeleton.bones) = 8 /\ Aligned(skeleton)

\* the limits the last constructor was given for the arm of chain i
GivenLimits(i) ==
    IF _vrMappings[i].getVrHand.side = "left"
    THEN last.rotationLimitSet.leftArm ELSE last.rotationLimitSet.rightArm
\* link l (from 0) of chain i is bone b with the limit lim, in radians
LinkIs(i, l, b, lim) ==
    LET link == _solver.iks[i].links[l + 1]
    IN  /\ link.index >= 0 /\ skeleton.bones[link.index + 1] = b
        /\ link.rotationMin = LimitToVec(lim.rotationMin)
        /\ link.rotationMax = LimitToVec(lim.rotationMax)
LowerArm(i) == ArmBoneNames(_vrMappings[i].getVrHand.side)[2]
UpperArm(i) == ArmBoneNames(_vrMappings[i].getVrHand.side)[1]

\* C10: createIKSettings applies the first element of rotationLimits to the
\* upper-arm link (link 1, the shoulder) and the second element to the
\* lower-arm link (link 0, the elbow).
C10_LimitsByBone ==
    last.op = "construct" =>
        \A i \in Chains :
            /\ LinkIs(i, 0, LowerArm(i), GivenLimits(i)[2])
            /\ LinkIs(i, 1, UpperArm(i), GivenLimits(i)[1])
\* the claim as made: the first element on the lower-arm link (link 0), the
\* second on the upper-arm link (link 1)
C10_AsClaimed ==
    last.op = "construct" =>
        \A i \in Chains :
            /\ LinkIs(i, 0, LowerArm(i), GivenLimits(i)[1])
            /\ LinkIs(i, 1, UpperArm(i), GivenLimits(i)[2])
\* the left chain built from the Ready Player Me set: the wide range, the
\* set's first element, is on the upper arm, the hinge on the lower arm
C10_Witness ==
    /\ last.op = "construct" /\ last.rotationLimitSet = RotationLimitSetRpm
    /\ Len(_vrMappings) = 2
    /\ LinkIs(1, 1, "LeftArm", RotationLimitSetRpm.leftArm[1])
    /\ LinkIs(1, 0, "LeftForeArm", RotationLimitSetRpm.leftArm[2])
    /\ RotationLimitSetRpm.leftArm[1] # RotationLimitSetRpm.leftArm[2]

\* dispose, called on an instance it has been called on, changes nothing
DisposeTwice ==
    LET once == Disposed(Instance)
        again == Disposed([solver |-> once.solver, helper |-> once.helper,
                           scene |-> once.scene, id |-> gen])
    IN  again = once
\* a call of dispose clears the solver and the helper, takes the helper (if
\* any) out of the scene and writes nothing else
DisposeStep ==
    last'.op = "dispose" =>
        /\ ~_solver'.defined /\ _solver'.iks = _solver.iks
        /\ ~_helper'.defined
        /\ scene' = IF _helper.defined THEN scene \ {gen} ELSE scene
        /\ UNCHANGED <<armBones, person, quaternion, skeleton, targetBone, gen,
                       _intervalSec, _sec, _vrMappings>>
        /\ ~_solver.defined => UNCHANGED <<_solver, _helper, scene>>

\* C11: dispose can be called any number of times: the first call takes the
\* debug helper (if any) off its parent and clears the solver reference, and
\* a later call changes nothing.
C11_DisposeIdempotent ==
    /\ [](gen > 0 => DisposeTwice)
    /\ [][DisposeStep]_vars
\* a dispose that took the helper of the second instance out of the scene and
\* left the helper of the first, never disposed, attached
C11_Witness ==
    /\ last.op = "dispose" /\ last.log = <<Event("removeFromParent", 2)>>
    /\ gen = 2 /\ scene = {1}
    /\ ~_solver.defined /\ ~_helper.defined
\* the mapping of chain i took the clamp branch in the last tick
Clamped(i) ==
    /\ Mapped(i)
    /\ ExceedsReach(ControllerDistanceSquared(i), _vrMappings[i].maxDistanceSquared)

\* C18: whenever a tick takes the clamp branch for a chain, the value it
\* divides by, maxShoulderToControllderDistanceSquared as read there, is
\* greater than 0 (and greater than maxDistanceSquared).
C18_DivisorPositive ==
    \A i \in Chains :
        Clamped(i) =>
            LET divisor == Divisor(
                    last.before[i].maxShoulderToControllderDistanceSquared,
                    _vrMappings[i].maxShoulderToControllderDistanceSquared)
            IN  /\ divisor > 0
                /\ divisor > _vrMappings[i].maxDistanceSquared
\* the first observation of a chain takes the clamp: the maximum was 0
\* before the call
C18_Witness ==
    /\ Len(_vrMappings) >= 1 /\ Clamped(1)
    /\ last.before[1].maxShoulderToControllderDistanceSquared = 0
    /\ ControllerDistanceSquared(1) = 4 * _vrMappings[1].maxDistanceSquared
    /\ _vrMappings[1].maxShoulderToControllderDistanceSquared
           = ControllerDistanceSquared(1)

Cross(u, v) ==
    <<u[2] * v[3] - u[3] * v[2], u[3] * v[1] - u[1] * v[3],
      u[1] * v[2] - u[2] * v[1]>>
Dot(u, v) == u[1] * v[1] + u[2] * v[2] + u[3] * v[3]
\* the target of chain i relative to its shoulder, times the denominator of
\* the target's world position
FromShoulder(i) ==
    LET w == TargetWorld(_vrMappings[i])
    IN  VSub(w.n, VScale(w.d, ShoulderWorld(_vrMappings[i])))
Denominator(i) == TargetWorld(_vrMappings[i]).d
ToController(i) ==
    VSub(HandWorldPosition(last.hands[i]), ShoulderWorld(_vrMappings[i]))

\* C19: after a tick that mapped a chain, the squared world distance from
\* the shoulder to the IK target is at most maxDistanceSquared.  The target
\* is the controller position when the controller is within reach; otherwise
\* it lies on the segment from the shoulder to the controller, at a fraction
\* alpha of it with 0 <= alpha < 1.
C19_TargetWithinReach ==
    \A i \in Chains :
        Mapped(i) =>
            LET r == FromShoulder(i)
                d == Denominator(i)
                c == ToController(i)
                m == _vrMappings[i]
            IN  /\ Dot(r, r) <= m.maxDistanceSquared * d * d
                /\ ~Clamped(i) => r = VScale(d, c)
                /\ Clamped(i) =>
                       /\ Cross(r, c) = ZeroV
                       /\ Dot(r, c) >= 0
                       /\ Dot(r, r) < d * d * Dot(c, c)
\* a clamp after a farther controller had been seen: the target ends
\* strictly inside the reach
C19_Witness ==
    /\ Len(_vrMappings) >= 1 /\ Clamped(1)
    /\ _vrMappings[1].maxShoulderToControllderDistanceSquared
           > ControllerDistanceSquared(1)
    /\ Dot(FromShoulder(1), FromShoulder(1)) > 0
    /\ Dot(FromShoulder(1), FromShoulder(1))
           < _vrMappings[1].maxDistanceSquared * Denominator(1) * Denominator(1)

\* index (from 0) is that of bone b in the skeleton
IndexOf(index, b) == index >= 0 /\ skeleton.bones[index + 1] = b
HandBone(i) == ArmBoneNames(_vrMappings[i].getVrHand.side)[3]

Filtered(clip) == \A k \in 1..Len(clip.tracks) : ~OfSyncTarget(clip.tracks[k])

\* C16: while the avatar is in IK mode the clip that playClip started has
\* no track of a sync target bone (the head bone and every arm bone found),
\* and setIKMode(true) leaves a filtered idle clip as the only one running.
C16_IKClipsFiltered ==
    /\ _ikEnabled /\ _activeAction.defined => Filtered(_activeAction.clip)
    /\ lastClip.op = "setIKMode" /\ lastClip.v =>
           /\ _activeAction.defined /\ _activeAction.enabled
           /\ _activeAction.clip.name = WithIK(Name("idle"))
           /\ Filtered(_activeAction.clip)
           /\ DOMAIN _mixer = {WithIK(Name("idle"))}
\* setIKMode(true) has replaced the running clip by the idle clip without
\* the tracks of the head and of the arm bones
C16_FilteredIdle ==
    /\ lastClip.op = "setIKMode" /\ lastClip.v
    /\ _activeAction.clip.name = WithIK(Name("idle"))
    /\ Len(_activeAction.clip.tracks) = 2
    /\ Len(SyncTargetBones) = 7
    /\ DOMAIN _mixer = {WithIK(Name("idle"))}

\* the calls of preLoadAnimationData that completed successfully
Completed == {p \in Calls : preloads[p].state = "resolved"}
\* a preLoadAnimationData call fails in this step
PreLoadFails == \E p \in Calls : preloads[p].state = "fetching"
                                  /\ preloads'[p].state = "rejected"

\* C17: loadAvatarModel returns a model only if a preLoadAnimationData call
\* had completed successfully when it reached the animation step; reaching
\* that step with none completed, it fails with 'preLoadAnimationData is
\* required', and only then.  isAnimationDataLoaded() is true exactly when
\* such a call has completed, and a call that fails leaves the loaded data
\* as they were.
C17_LoadRequiresPreload ==
    /\ [](\A c \in Calls :
             /\ loads[c].state = "resolved" => loads[c].completedBefore # {}
             /\ loads[c].error = RequiredError <=>
                    /\ loads[c].state = "rejected"
                    /\ loads[c].error \notin {"parse", "TypeError"}
                    /\ loads[c].completedBefore = {})
    /\ [](IsAnimationDataLoaded <=> Completed # {})
    /\ [][PreLoadFails => UNCHANGED avatarAnimationData]_vars
\* one load failed for want of the data, a later one returned the model
\* after a preload had completed, and another preload failed after that
C17_Witness ==
    /\ loads[1].state = "rejected" /\ loads[1].error = RequiredError
    /\ loads[2].state = "resolved" /\ loads[2].completedBefore = {1}
    /\ loads[2].animations = {"walk", "idle", "dance"}
    /\ preloads[2].state = "rejected"
    /\ IsAnimationDataLoaded

Named(sk, n) == Cardinality({k \in 1..Len(sk.bones) : sk.bones[k] = n})
\* a construction makes the target bone of an arm exactly when the arm is
\* enabled and the skeleton had no bone of that name
CreatesWhenAbsent ==
    gen' = gen + 1 =>
        \A a \in ArmSet :
            Named(skeleton', TargetName(a)) - Named(skeleton, TargetName(a))
                = IF ~Disabled(a) /\ Named(skeleton, TargetName(a)) = 0
                  THEN 1 ELSE 0

\* C21: after any number of constructions on the same avatar, disposed in
\* between or not, the skeleton has at most one bone named leftArmIK and at
\* most one named rightArmIK; a construction makes a target bone only when
\* the skeleton has none of that name.
C21_OneTargetPerArm ==
    /\ [](\A n \in TargetNames : Named(skeleton, n) <= 1)
    /\ [][CreatesWhenAbsent]_vars
\* a second instance built after the first was disposed: still one target
\* bone per arm
C21_Witness ==
    /\ gen = 2 /\ last.op = "construct" /\ scene = {}
    /\ _helper.defined = FALSE
    /\ \A n \in TargetNames : Named(skeleton, n) = 1
    /\ Len(skeleton.bones) = 8

\* the bones of the links of chain i
LinkBones(i) ==
    {skeleton.bones[_solver.iks[i].links[l].index + 1] :
         l \in {l \in 1..Len(_solver.iks[i].links) : _solver.iks[i].links[l].index >= 0}}
\* the target bone of chain i
TargetOf(i) == targetBone[skeleton.bones[_solver.iks[i].target + 1]]

\* C22: the target bone of every chain of an instance, made by this
\* construction or found by name in the skeleton, is a child of the avatar
\* object the instance was given, and of none of the chain's link bones.
C22_TargetUnderRoot ==
    _solver.defined =>
        \A i \in Chains :
            /\ _solver.iks[i].target >= 0
            /\ TargetOf(i).exists
            /\ TargetOf(i).parent = Person
            /\ TargetOf(i).parent \notin LinkBones(i)
\* a second instance whose two chains found their target bones in the
\* skeleton
C22_Witness ==
    /\ gen = 2 /\ _solver.defined /\ Len(_solver.iks) = 2
    /\ \A i \in Chains :
           /\ _solver.iks[i].target \in {6, 7}
           /\ TargetOf(i).parent = Person
           /\ Cardinality(LinkBones(i)) = 2

\* C23: a tick whose accumulated time stays below the interval writes the
\* accumulator and nothing else: no target bone, no bone rotation (links and
\* wrist), no reach maximum, no other field of the instance changes, and no
\* controller provider is called.
C23_IdleTickFrame ==
    [][last'.op = "tick" /\ last'.sec < _intervalSec =>
          /\ _sec' = last'.sec
          /\ \A k \in 1..Len(last'.log) : last'.log[k].ev # "getVrHand"
          /\ last'.log = <<>>
          /\ UNCHANGED <<armBones, person, quaternion, skeleton, targetBone, gen,
                         _intervalSec, _solver, _vrMappings, _helper, scene>>]_vars
\* a call below the interval on an instance whose left chain had been driven
\* by its controller before
C23_Witness ==
    /\ last.op = "tick" /\ last.log = <<>>
    /\ _solver.defined /\ _intervalSec = 3 /\ _sec = 2 /\ last.deltaTime = 1
    /\ Len(_vrMappings) >= 1
    /\ _vrMappings[1].maxShoulderToControllderDistanceSquared > 0

\* C24: a tick that maps chain i sets the local rotation of the wrist to
\* inverse(world orientation of the wrist's parent) * world orientation of
\* the controller * calibration offset, the parent taken as it is before the
\* call; the wrist's own previous rotation has no part in it.
C24_WristFromController ==
    [][\A i \in 1..Len(_vrMappings) :
          Mapped(i)' /\ gen' = gen =>
              LET m == _vrMappings[i]
                  parent == GetWorldQuaternion(quaternion, Parent(m.wristBone))
                  hand == HandWorldQuaternion(last'.hands[i])
              IN  quaternion'[m.wristBone] =
                      MultiplyQuaternions(
                          MultiplyQuaternions(Invert(parent), hand),
                          m.wristRotationOffset)]_vars
\* the wrist of the first chain set from a turned controller with an offset
\* that is not the identity, the arm left bent by the solve
C24_Witness ==
    /\ Len(_vrMappings) >= 1 /\ Mapped(1)
    /\ _vrMappings[1].wristRotationOffset # IdQ
    /\ HandWorldQuaternion(last.hands[1]) # IdQ
    /\ quaternion[_vrMappings[1].wristBone] # HandWorldQuaternion(last.hands[1])
    /\ quaternion[_vrMappings[1].wristBone] # _vrMappings[1].wristBoneInitQuat
    /\ GetWorldQuaternion(quaternion, Parent(_vrMappings[1].wristBone)) # IdQ

\* a content of the scratch objects that no call of the code leaves
Garbage ==
    {[defined |-> TRUE, vec |-> RVec(<<9, 9, 9>>),
      vec1 |-> [n |-> <<1, 2, 3>>, d |-> 2], quat |-> RotX90, quat1 |-> RotZ90,
      mat |-> [position |-> <<5, 5, 5>>, quaternion |-> RotY90]]}
\* controllers to try: one within the reach of a straight arm, one beyond
Probes == {[a \in ArmSet |-> Hand(a, c)] : c \in {AtFive, AtFourteen}}
\* what a call hands on besides the scratch objects
Outputs(r) == <<r.m, r.targetBone, r.quaternion>>
\* the mapping the constructor would build again for chain i
Rebuilt(i, tmps) ==
    LET m == _vrMappings[i]
    IN  NewVRMapping(targetBone, quaternion, m.getVrHand, m.ikTarget,
                     m.wristBone, m.shoulderBone, m.wristRotationOffset, tmps)

\* C25: what mapVRAvatar and the constructor of VRMapping produce for a chain
\* (target position, wrist rotation, reach maxima) is the same whatever the
\* scratch objects were left holding, by an earlier call of any chain or
\* instance or otherwise: every scratch object is written before it is read.
C25_ScratchIndependent ==
    \A i \in Chains, g \in Garbage :
        /\ \A hands \in Probes :
               Outputs(MapVRAvatar(_vrMappings[i], targetBone, quaternion, hands, g))
                   = Outputs(MapVRAvatar(_vrMappings[i], targetBone, quaternion,
                                         hands, _tmps))
        /\ Rebuilt(i, g) = Rebuilt(i, _tmps)
\* the scratch objects hold what the mapping of the second chain of a second
\* instance left in them, after the first chain was mapped in the same tick
C25_Witness ==
    /\ gen = 2 /\ Len(_vrMappings) = 2 /\ Mapped(1) /\ Mapped(2)
    /\ _tmps.mat = person /\ _tmps.quat # IdQ
    /\ _tmps.vec = targetBone[_vrMappings[2].ikTarget].position
    /\ _tmps \notin Garbage

\* chain i was handed to the solver in the last tick
Solved(i) == last.op = "tick" /\ Count(Event("updateOne", i)) = 1

RestOf(m, rest) ==
    [ikTargetInitPos |->
         ApplyInverseMatrixWorld(person, RVec(GetWorldPosition(rest, m.wristBone))),
     wristBoneInitQuat |-> rest[m.wristBone]]
Captured(m) ==
    [ikTargetInitPos |-> m.ikTargetInitPos, wristBoneInitQuat |-> m.wristBoneInitQuat]

\* C27: every instance, a later one on the same avatar included, holds for
\* each mapping the target position and the wrist quaternion of the rest
\* pose, the pose the avatar had before any instance drove it.
C27_RestCaptured ==
    \A i \in Chains :
        \E rest \in RestQuaternions(Env.bends) : Captured(_vrMappings[i]) = RestOf(_vrMappings[i], rest)
\* a second instance made after the first mapped the left controller: it
\* holds the wrist quaternion and the target position the mapping left
C27_DrivenPoseCaptured ==
    /\ gen = 2 /\ last.op = "construct" /\ Len(_vrMappings) = 2
    /\ _vrMappings[1].wristBoneInitQuat = quaternion["LeftHand"]
    /\ _vrMappings[1].wristBoneInitQuat # RotX90
    /\ _vrMappings[1].ikTargetInitPos = targetBone["leftArmIK"].position
    /\ \A rest \in RestQuaternions(Env.bends) :
           _vrMappings[1].ikTargetInitPos # RestOf(_vrMappings[1], rest).ikTargetInitPos
\* the first instance holds the rest pose
C27_FirstInstance ==
    gen = 1 =>
        \A i \in Chains :
            \E rest \in RestQuaternions(Env.bends) : Captured(_vrMappings[i]) = RestOf(_vrMappings[i], rest)

\* the steps a tick takes on a chain before it solves it
MapSteps(i) == {Event("mapVRAvatar", i), Event("reset", i)}
\* in the log of the last tick the mapping or the reset of chain i comes
\* before the solve of chain i, and the solve of chain i before every step
\* on chain i + 1
StepsOrdered ==
    \A k \in 1..Len(last.log) :
        LET e == last.log[k]
        IN  /\ e.ev = "updateOne" =>
                   \E j \in 1..(k - 1) : last.log[j] \in MapSteps(e.i)
            /\ e.ev = "updateOne" =>
                   \A j \in (k + 1)..Len(last.log) : last.log[j] \notin MapSteps(e.i)
            /\ e.i > 1 =>
                   \E j \in 1..(k - 1) : last.log[j] = Event("updateOne", e.i - 1)

\* C28: a tick that fires works chain by chain: chain i is mapped or reset,
\* then solved, and only then chain i + 1 is touched; so the rotation a
\* mapping gives the wrist is taken against the world orientation the wrist's
\* parent has before the solve of that chain turns it.
C28_MapThenSolve ==
    /\ [](last.op = "tick" => StepsOrdered)
    /\ [][\A i \in 1..Len(_vrMappings) :
             Mapped(i)' /\ gen' = gen =>
                 quaternion'[_vrMappings[i].wristBone] =
                     WristQuaternion(
                         GetWorldQuaternion(quaternion, Parent(_vrMappings[i].wristBone)),
                         HandWorldQuaternion(last'.hands[i]),
                         _vrMappings[i].wristRotationOffset)]_vars
\* both chains mapped and solved in turn; the solve of the left chain turned
\* the lower arm after the wrist had been set, so the wrist no longer has the
\* rotation that the lower arm's new orientation would give it
C28_Witness ==
    /\ last.op = "tick" /\ Len(_vrMappings) = 2
    /\ last.log = <<Event("getVrHand", 1), Event("mapVRAvatar", 1),
                    Event("getVrHand", 1), Event("updateOne", 1),
                    Event("getVrHand", 2), Event("mapVRAvatar", 2),
                    Event("getVrHand", 2), Event("updateOne", 2)>>
    /\ quaternion["LeftHand"] #
           WristQuaternion(GetWorldQuaternion(quaternion, "LeftForeArm"),
                           HandWorldQuaternion(last.hands[1]),
                           _vrMappings[1].wristRotationOffset)

\* the clips requested so far are walk, idle, walk, idle, ...
Alternates ==
    \A k \in 1..Len(played) : played[k] = IF k % 2 = 1 THEN "walk" ELSE "idle"
\* the last tick saw the object more than 0.05 away, on x or on z, from the
\* position recorded before it
MovedInLastTick ==
    /\ lastWalk.before.lastPosition.defined
    /\ \/ Abs(lastWalk.before.lastPosition.position[1] - lastWalk.newPos[1]) > 5
       \/ Abs(lastWalk.before.lastPosition.position[3] - lastWalk.newPos[3]) > 5
\* the walker's own state is as it was before the last call
WalkerAsBefore ==
    /\ _isWalking = lastWalk.before.isWalking
    /\ _walkCheckTimer = lastWalk.before.walkCheckTimer
    /\ _lastPosition = lastWalk.before.lastPosition

\* C29: over any sequence of ticks the requests for the walk clip and the idle
\* clip alternate, walk first; walk is requested only by a tick that finds the
\* walker not walking and the object moved more than 0.05 on x or z from the
\* recorded position, idle only by a tick that finds it walking with more
\* than 0.3 s of tick time gone since the last movement; a tick while the
\* object is not visible changes nothing.
C29_WalkIdleAlternate ==
    /\ Alternates
    /\ lastWalk.request = "walk" =>
           lastWalk.visible /\ ~lastWalk.before.isWalking /\ MovedInLastTick
    /\ lastWalk.request = "idle" =>
           /\ lastWalk.visible /\ lastWalk.before.isWalking /\ ~MovedInLastTick
           /\ sinceMoved > 36
    /\ lastWalk.op = "tick" /\ ~lastWalk.visible =>
           WalkerAsBefore /\ lastWalk.request = "none"
\* the second idle, requested by the tick that took the time since the
\* movement from exactly 0.3 s to more
C29_Witness ==
    /\ played = <<"walk", "idle", "walk", "idle">>
    /\ lastWalk.request = "idle"
    /\ lastWalk.before.walkCheckTimer = 36 /\ lastWalk.dt = 18
    /\ sinceMoved = 54
\* a tick on a hidden object that had moved away while the walker was not
\* walking
C29_HiddenTick ==
    /\ lastWalk.op = "tick" /\ ~lastWalk.visible /\ _object3D.defined
    /\ _lastPosition.defined /\ ~_isWalking
    /\ Abs(_lastPosition.position[1] - _object3D.position[1]) > 5
    /\ played = <<"walk", "idle">>

\* the callbacks were invoked in the order of the events that started their
\* runs
InEventOrder ==
    \A j, k \in 1..Len(callbacks) : j < k => callbacks[j].event < callbacks[k].event
\* the last event was the end of a session and every run has ended
AllEnded ==
    /\ registered /\ ~xr.isPresenting
    /\ \E e \in Started : handlers[e].kind = "setupNonVR" /\ e > 1
    /\ \A e \in Started : handlers[e].pc = "done"

\* C30: however sessionstart and sessionend interleave with the waits of
\* setupVR, onVR and onNonVR are invoked in the order of the events that
\* caused them, and once a session has ended and every run has finished the
\* callback invoked last is onNonVR.
C30_CallbacksInEventOrder ==
    /\ InEventOrder
    /\ AllEnded => callbacks[Len(callbacks)].cb = "onNonVR"
\* a session started while the avatar was loading and ended before it had
\* loaded: onVR was invoked after the onNonVR of the end, and every run is
\* over
C30_LateOnVR ==
    /\ AllEnded
    /\ Len(callbacks) = 3
    /\ callbacks[1] = Callback("onNonVR", 1)
    /\ callbacks[2] = Callback("onNonVR", 3)
    /\ callbacks[3] = Callback("onVR", 2)
    /\ headOffset.position = "headHeight"
\* sessions whose runs of setupVR did not have to wait: the callbacks in the
\* order of the events
C30_InOrder ==
    /\ AllEnded /\ Len(callbacks) = 4 /\ InEventOrder
    /\ callbacks[4] = Callback("onNonVR", 4)

====
